---- MODULE Spec2Model ----
(***************************************************************************)
(* A model of imguri (src/imguri.js and its adapters): the conversion of   *)
(* local files and remote HTTP(S) resources into base64 data URIs.         *)
(*                                                                         *)
(* Strings are TLA+ strings (Len, SubSeq and \o act on them), so that the  *)
(* code's string tests (the URL pattern, path normalisation, the '..'      *)
(* test, the error messages) are computed the way the code computes them.  *)
(* JavaScript values that may be null are records tagged by the field t.   *)
(***************************************************************************)
EXTENDS Integers, Sequences, FiniteSets, TLC

(***************************************************************************)
(* Program constants (config.js).                                          *)
(***************************************************************************)
DEFAULT_SIZE_LIMIT == 131072
DEFAULT_TIMEOUT == 20000
DEFAULT_CONCURRENCY == 10

(***************************************************************************)
(* Bounds of the model.                                                    *)
(***************************************************************************)
\* the longest input sequence an encode call is given
MaxInputs == 3
\* the loop index of encode is kept above -MaxNegIndex (see NextIndex)
MaxNegIndex == 2
\* the largest file size and body length of the worlds that exercise the gates
MaxSize == 3
\* the largest sizeLimit of the calls that exercise the gates
MaxLimit == 2
\* the longest delay of a response, in ms
MaxDelay == 3
\* the longest buffer handed to toDataUri on its own
MaxBytes == 4
\* the most segments of a generated relative path
MaxSegments == 3

(***************************************************************************)
(* JavaScript values.                                                      *)
(***************************************************************************)
Null == [t |-> "null"]
Str(s) == [t |-> "string", v |-> s]
Err(name, message) == [t |-> "error", name |-> name, message |-> message]
IsNull(v) == v.t = "null"
Undefined == [t |-> "undefined"]
Num(n) == [t |-> "number", v |-> n]

\* The outcome of a call that returns or throws.
Return(v) == [threw |-> FALSE, value |-> v]
Throw(e) == [threw |-> TRUE, value |-> e]

(***************************************************************************)
(* String helpers: the String.prototype methods the code uses.             *)
(***************************************************************************)
CharAt(s, pos) == SubSeq(s, pos, pos)

StartsWith(s, p) == Len(s) >= Len(p) /\ SubSeq(s, 1, Len(p)) = p

Includes(s, p) == \E k \in 1..(Len(s) - Len(p) + 1) : SubSeq(s, k, k + Len(p) - 1) = p

UpperLetters == "ABCDEFGHIJKLMNOPQRSTUVWXYZ"
LowerLetters == "abcdefghijklmnopqrstuvwxyz"
Digits == "0123456789"

CharsOf(alphabet) == {CharAt(alphabet, k) : k \in 1..Len(alphabet)}
UpperSet == CharsOf(UpperLetters)
LetterSet == CharsOf(UpperLetters) \cup CharsOf(LowerLetters)
DigitSet == CharsOf(Digits)

\* c.toLowerCase() for one character
LowerOf == [c \in UpperSet |->
               CharAt(LowerLetters, CHOOSE k \in 1..Len(UpperLetters) : CharAt(UpperLetters, k) = c)]
\* the value of a decimal digit
DigitOf == [c \in DigitSet |-> (CHOOSE k \in 1..Len(Digits) : CharAt(Digits, k) = c) - 1]

IsLetter(c) == c \in LetterSet

LowerChar(c) == IF c \in UpperSet THEN LowerOf[c] ELSE c

RECURSIVE ToLowerCase(_)
ToLowerCase(s) ==
    IF Len(s) = 0 THEN "" ELSE LowerChar(CharAt(s, 1)) \o ToLowerCase(SubSeq(s, 2, Len(s)))

\* The position of the last occurrence of the character c in s, 0 when there is none.
LastIndexOf(s, c) ==
    IF \E k \in 1..Len(s) : CharAt(s, k) = c
    THEN CHOOSE k \in 1..Len(s) :
             CharAt(s, k) = c /\ \A m \in (k + 1)..Len(s) : CharAt(s, m) # c
    ELSE 0

\* s.split(sep) for a one-character separator.
RECURSIVE Split(_, _)
Split(s, sep) ==
    IF ~Includes(s, sep) THEN <<s>>
    ELSE LET k == CHOOSE j \in 1..Len(s) :
                      CharAt(s, j) = sep /\ \A m \in 1..(j - 1) : CharAt(s, m) # sep
         IN  <<SubSeq(s, 1, k - 1)>> \o Split(SubSeq(s, k + 1, Len(s)), sep)

RECURSIVE Join(_, _)
Join(segs, sep) ==
    IF Len(segs) = 0 THEN ""
    ELSE IF Len(segs) = 1 THEN segs[1]
    ELSE segs[1] \o sep \o Join(Tail(segs), sep)

(***************************************************************************)
(* Array helpers: Array.prototype.slice and the Set-based deduplication.   *)
(***************************************************************************)
Max(a, b) == IF a >= b THEN a ELSE b
Min(a, b) == IF a <= b THEN a ELSE b

\* arr.slice(start, end) over 0-based indices, negative ones counted from the end.
Slice(arr, start, end) ==
    LET n == Len(arr)
        from == IF start < 0 THEN Max(n + start, 0) ELSE Min(start, n)
        to == IF end < 0 THEN Max(n + end, 0) ELSE Min(end, n)
    IN  IF to <= from THEN <<>> ELSE SubSeq(arr, from + 1, to)

\* Unique without the deduplication
NoDedup(arr) == arr

\* [...new Set(arr)]: the first occurrence of each value, in order.
RECURSIVE Unique(_)
Unique(arr) ==
    IF Len(arr) = 0 THEN <<>>
    ELSE LET init == Unique(SubSeq(arr, 1, Len(arr) - 1))
             last == arr[Len(arr)]
         IN  IF \E k \in 1..Len(init) : init[k] = last THEN init ELSE Append(init, last)

(***************************************************************************)
(* core/encoder.js: toDataUri.  A Buffer is a sequence of bytes: the bytes *)
(* written out, followed by a run of `zeros` zero bytes, which is how the  *)
(* model holds the large zero-filled buffers of Buffer.alloc.              *)
(***************************************************************************)
BufferOf(bytes, zeros) == [t |-> "buffer", bytes |-> bytes, zeros |-> zeros]
Buffer(bytes) == BufferOf(bytes, 0)
\* Buffer.alloc(n)
Alloc(n) == BufferOf(<<>>, n)
\* buffer.length
ByteLength(buffer) == Len(buffer.bytes) + buffer.zeros

B64Alphabet == "ABCDEFGHIJKLMNOPQRSTUVWXYZabcdefghijklmnopqrstuvwxyz0123456789+/"
B64Char(n) == CharAt(B64Alphabet, n + 1)

\* Base64 in the URL-safe alphabet (- and _ for + and /)
RECURSIVE Base64UrlSafe(_)
Base64UrlSafe(b) ==
    LET Url(n) == IF n = 62 THEN "-" ELSE IF n = 63 THEN "_" ELSE B64Char(n)
    IN  IF Len(b) = 0 THEN ""
        ELSE IF Len(b) = 1 THEN Url(b[1] \div 4) \o Url((b[1] % 4) * 16) \o "=="
        ELSE IF Len(b) = 2 THEN
            Url(b[1] \div 4) \o Url((b[1] % 4) * 16 + b[2] \div 16)
                \o Url((b[2] % 16) * 4) \o "="
        ELSE
            Url(b[1] \div 4) \o Url((b[1] % 4) * 16 + b[2] \div 16)
                \o Url((b[2] % 16) * 4 + b[3] \div 64) \o Url(b[3] % 64)
                \o Base64UrlSafe(SubSeq(b, 4, Len(b)))

\* Base64 that drops the bits of a last group of one or two bytes that do not
\* fill a character of their own
RECURSIVE Base64DropsLowBits(_)
Base64DropsLowBits(b) ==
    IF Len(b) = 0 THEN ""
    ELSE IF Len(b) = 1 THEN B64Char(b[1] \div 4) \o B64Char(0) \o "=="
    ELSE IF Len(b) = 2 THEN
        B64Char(b[1] \div 4) \o B64Char((b[1] % 4) * 16 + b[2] \div 16) \o B64Char(0) \o "="
    ELSE
        B64Char(b[1] \div 4) \o B64Char((b[1] % 4) * 16 + b[2] \div 16)
            \o B64Char((b[2] % 16) * 4 + b[3] \div 64) \o B64Char(b[3] % 64)
            \o Base64DropsLowBits(SubSeq(b, 4, Len(b)))

\* buffer.toString('base64'): the standard alphabet, '=' padding, no line breaks.
RECURSIVE Base64(_)
Base64(b) ==
    IF Len(b) = 0 THEN ""
    ELSE IF Len(b) = 1 THEN
        B64Char(b[1] \div 4) \o B64Char((b[1] % 4) * 16) \o "=="
    ELSE IF Len(b) = 2 THEN
        B64Char(b[1] \div 4) \o B64Char((b[1] % 4) * 16 + b[2] \div 16)
            \o B64Char((b[2] % 16) * 4) \o "="
    ELSE
        B64Char(b[1] \div 4) \o B64Char((b[1] % 4) * 16 + b[2] \div 16)
            \o B64Char((b[2] % 16) * 4 + b[3] \div 64) \o B64Char(b[3] % 64)
            \o Base64(SubSeq(b, 4, Len(b)))

\* s repeated n times
RECURSIVE Repeat(_, _)
Repeat(s, n) ==
    IF n = 0 THEN ""
    ELSE IF n % 2 = 1 THEN s \o Repeat(s, n - 1)
    ELSE LET half == Repeat(s, n \div 2) IN half \o half

ZeroBytes(n) == [k \in 1..n |-> 0]

\* buffer.toString('base64') of a Buffer: the zero bytes that complete the last
\* group of three of the bytes written out are encoded with them, every further
\* group of three zero bytes is AAAA, and the rest of the run ends the string.
ToBase64(buffer) ==
    LET fill == Min(buffer.zeros, (3 - (Len(buffer.bytes) % 3)) % 3)
        rest == buffer.zeros - fill
    IN  Base64(buffer.bytes \o ZeroBytes(fill)) \o Repeat("AAAA", rest \div 3)
            \o Base64(ZeroBytes(rest % 3))

\* toDataUri that tests only the type of mimeType, not that it is non-empty
toDataUriAcceptsEmpty(buffer, mimeType) ==
    IF buffer.t # "buffer"
    THEN Throw(Err("TypeError", "Expected buffer to be a Buffer instance"))
    ELSE IF mimeType.t # "string"
    THEN Throw(Err("TypeError", "Expected mimeType to be a non-empty string"))
    ELSE Return(Str("data:" \o mimeType.v \o ";base64," \o ToBase64(buffer)))

\* toDataUri(buffer, mimeType); mimeType is a JavaScript value (a string or null).
toDataUri(buffer, mimeType) ==
    IF buffer.t # "buffer"
    THEN Throw(Err("TypeError", "Expected buffer to be a Buffer instance"))
    ELSE IF mimeType.t # "string" \/ mimeType.v = ""
    THEN Throw(Err("TypeError", "Expected mimeType to be a non-empty string"))
    ELSE Return(Str("data:" \o mimeType.v \o ";base64," \o ToBase64(buffer)))

(***************************************************************************)
(* node:path (POSIX): normalize and resolve, as validatePath calls them.   *)
(***************************************************************************)
\* the working directory, process.cwd()
Cwd == "/w"

\* normalizeString: drops empty and '.' segments and resolves '..' lexically;
\* above the root a '..' is kept only when allowAboveRoot.
RECURSIVE NormalizeSegments(_, _, _)
NormalizeSegments(segs, acc, allowAboveRoot) ==
    IF Len(segs) = 0 THEN acc
    ELSE LET seg == Head(segs)
             rest == Tail(segs)
         IN  IF seg = "" \/ seg = "." THEN NormalizeSegments(rest, acc, allowAboveRoot)
             ELSE IF seg = ".." THEN
                 IF Len(acc) > 0 /\ acc[Len(acc)] # ".."
                 THEN NormalizeSegments(rest, SubSeq(acc, 1, Len(acc) - 1), allowAboveRoot)
                 ELSE IF allowAboveRoot
                 THEN NormalizeSegments(rest, Append(acc, ".."), allowAboveRoot)
                 ELSE NormalizeSegments(rest, acc, allowAboveRoot)
             ELSE NormalizeSegments(rest, Append(acc, seg), allowAboveRoot)

\* path.normalize(p)
Normalize(p) ==
    IF Len(p) = 0 THEN "."
    ELSE LET isAbsolute == CharAt(p, 1) = "/"
             trailing == CharAt(p, Len(p)) = "/"
             body == Join(NormalizeSegments(Split(p, "/"), <<>>, ~isAbsolute), "/")
         IN  IF Len(body) = 0
             THEN (IF isAbsolute THEN "/" ELSE IF trailing THEN "./" ELSE ".")
             ELSE (IF isAbsolute THEN "/" ELSE "") \o body \o (IF trailing THEN "/" ELSE "")

\* path.resolve(p): an absolute path, with no trailing separator.
Resolve(p) ==
    LET full == IF StartsWith(p, "/") THEN p ELSE Cwd \o "/" \o p
    IN  "/" \o Join(NormalizeSegments(Split(full, "/"), <<>>, FALSE), "/")

(***************************************************************************)
(* imguri.js: validatePath, isUrl, isImage.                                *)
(***************************************************************************)
\* /^[A-Za-z]:\\/ : a Windows drive prefix
IsDrivePath(p) == Len(p) >= 3 /\ IsLetter(CharAt(p, 1)) /\ SubSeq(p, 2, 3) = ":\\"

\* validatePath that looks for a leading '../' in the input as given
validatePathRawPrefix(filePath) ==
    LET normalized == Normalize(filePath)
    IN  IF StartsWith(filePath, "../")
        THEN Throw(Err("Error",
                 "Invalid path: path traversal detected in \"" \o filePath \o "\""))
        ELSE IF ~StartsWith(normalized, "/") /\ ~IsDrivePath(normalized)
                /\ ~StartsWith(Resolve(normalized), Cwd)
        THEN Throw(Err("Error",
                 "Invalid path: relative path escapes cwd \"" \o filePath \o "\" -> \""
                     \o Resolve(normalized) \o "\""))
        ELSE Return(Str(normalized))

\* validatePath without the test for `..` in the normalized path
validatePathNoTraversalTest(filePath) ==
    LET normalized == Normalize(filePath)
    IN  IF ~StartsWith(normalized, "/") /\ ~IsDrivePath(normalized)
           /\ ~StartsWith(Resolve(normalized), Cwd)
        THEN Throw(Err("Error",
                 "Invalid path: relative path escapes cwd \"" \o filePath \o "\" -> \""
                     \o Resolve(normalized) \o "\""))
        ELSE Return(Str(normalized))

validatePath(filePath) ==
    LET normalized == Normalize(filePath)
    IN  IF Includes(normalized, "..")
        THEN Throw(Err("Error",
                 "Invalid path: path traversal detected in \"" \o filePath \o "\""))
        ELSE IF ~StartsWith(normalized, "/") /\ ~IsDrivePath(normalized)
                /\ ~StartsWith(Resolve(normalized), Cwd)
        THEN Throw(Err("Error",
                 "Invalid path: relative path escapes cwd \"" \o filePath \o "\" -> \""
                     \o Resolve(normalized) \o "\""))
        ELSE Return(Str(normalized))

\* isUrl without the i flag of the pattern
isUrlCaseSensitive(path) == StartsWith(path, "http://") \/ StartsWith(path, "https://")

\* URL_PATTERN = /^https?:\/\//i
isUrl(path) ==
    \/ StartsWith(ToLowerCase(SubSeq(path, 1, Min(7, Len(path)))), "http://")
    \/ StartsWith(ToLowerCase(SubSeq(path, 1, Min(8, Len(path)))), "https://")

\* validators/input-validator.js: getPathType, with the same pattern
getPathType(path) == IF isUrl(path) THEN "url" ELSE "file"

\* /^image\//i
isImage(contentType) ==
    StartsWith(ToLowerCase(SubSeq(contentType, 1, Min(6, Len(contentType)))), "image/")

(***************************************************************************)
(* The world the adapters read: the files by absolute path, each with the  *)
(* size stat reports and the bytes a read returns, and per URL the         *)
(* response to the HEAD and to the GET request.  A response is             *)
(*   [delay, status, statusText, ctype, clen, bodyDelay, body]             *)
(* where ctype and clen are the header values (Null when the header is     *)
(* absent) and delay, bodyDelay are the milliseconds after which the       *)
(* headers arrive and the body is read.                                    *)
(***************************************************************************)
File(size, bytes) == [size |-> size, bytes |-> bytes, zeros |-> 0]
\* the file that writeFile(path, Buffer.alloc(n)) leaves
AllocFile(n) == [size |-> n, bytes |-> <<>>, zeros |-> n]

Response(delay, status, statusText, ctype, clen, bodyDelay, body) ==
    [delay |-> delay, status |-> status, statusText |-> statusText, ctype |-> ctype,
     clen |-> clen, bodyDelay |-> bodyDelay, body |-> body, bodyZeros |-> 0]
\* the response with a body of n zero bytes
AllocBody(resp, n) == [resp EXCEPT !.body = <<>>, !.bodyZeros = n]

Site(head, get) == [head |-> head, get |-> get]

(***************************************************************************)
(* adapters/file-reader.js                                                 *)
(***************************************************************************)
\* fs.access(path, R_OK) succeeds
fileExists(w, filePath) == Resolve(filePath) \in DOMAIN w.files

\* (await stat(path)).size; stat rejects when the file is missing
getFileSize(w, filePath) ==
    IF Resolve(filePath) \in DOMAIN w.files
    THEN [threw |-> FALSE, size |-> w.files[Resolve(filePath)].size]
    ELSE Throw(Err("Error", "ENOENT: no such file or directory, stat '" \o filePath \o "'"))

\* readFile(path)
readFileBuffer(w, filePath) ==
    IF Resolve(filePath) \in DOMAIN w.files
    THEN Return(BufferOf(w.files[Resolve(filePath)].bytes, w.files[Resolve(filePath)].zeros))
    ELSE Throw(Err("Error", "ENOENT: no such file or directory, open '" \o filePath \o "'"))

\* mime-types' table, as far as the model's paths go
MimeTypes ==
    [ext \in {"png", "jpg", "gif", "html", "txt"} |->
        CASE ext = "png" -> "image/png"
          [] ext = "jpg" -> "image/jpeg"
          [] ext = "gif" -> "image/gif"
          [] ext = "html" -> "text/html"
          [] ext = "txt" -> "text/plain"]

\* path.extname: from the last '.' of the last segment, none when that '.' leads it
Extname(p) ==
    LET segs == Split(p, "/")
        base == segs[Len(segs)]
        dot == LastIndexOf(base, ".")
    IN  IF dot <= 1 THEN "" ELSE SubSeq(base, dot, Len(base))

\* lookup(path) || null: the type of the extension of 'x.' + path
getMimeType(filePath) ==
    LET extension == ToLowerCase(SubSeq(Extname("x." \o filePath), 2,
                                        Len(Extname("x." \o filePath))))
    IN  IF extension # "" /\ extension \in DOMAIN MimeTypes
        THEN Str(MimeTypes[extension])
        ELSE Null

(***************************************************************************)
(* adapters/http-client.js                                                 *)
(***************************************************************************)
\* parseInt(s, 10): an optional sign and the leading digits; NaN when there are none
RECURSIVE DigitsValue(_, _)
DigitsValue(s, acc) ==
    IF Len(s) = 0 \/ CharAt(s, 1) \notin DigitSet THEN acc
    ELSE DigitsValue(SubSeq(s, 2, Len(s)), acc * 10 + DigitOf[CharAt(s, 1)])

ParseInt(s) ==
    LET neg == Len(s) > 0 /\ CharAt(s, 1) = "-"
        signed == Len(s) > 0 /\ (CharAt(s, 1) = "-" \/ CharAt(s, 1) = "+")
        digits == IF signed THEN SubSeq(s, 2, Len(s)) ELSE s
    IN  IF Len(digits) = 0 \/ CharAt(digits, 1) \notin DigitSet
        THEN [nan |-> TRUE, n |-> 0]
        ELSE [nan |-> FALSE, n |-> IF neg THEN 0 - DigitsValue(digits, 0)
                                          ELSE DigitsValue(digits, 0)]

\* response.ok
ResponseOk(resp) == resp.status >= 200 /\ resp.status <= 299

\* header || fallback
HeaderOr(h, fallback) == IF IsNull(h) \/ h.v = "" THEN fallback ELSE h.v

AbortError == Err("AbortError", "This operation was aborted")

HttpError(resp) == Err("Error", "HTTP " \o ToString(resp.status) \o ": " \o resp.statusText)

\* TimedOut for a request that has no timer
TimedOutNever(elapsed, timeout) == FALSE

\* The timer of a request fires when `elapsed` ms have passed since it was issued.
TimedOut(elapsed, timeout) == elapsed >= timeout

\* fetchMetadata(url, timeout)
fetchMetadata(w, url, timeout) ==
    LET resp == w.http[url].head
    IN  IF TimedOut(resp.delay, timeout) THEN Throw(AbortError)
        ELSE IF ~ResponseOk(resp) THEN Throw(HttpError(resp))
        ELSE Return([contentType |-> HeaderOr(resp.ctype, ""),
                     contentLength |-> ParseInt(HeaderOr(resp.clen, "0"))])

\* fetchBufferHeaders without the test of response.ok
fetchBufferHeadersAnyStatus(w, url, timeout) ==
    LET resp == w.http[url].get
    IN  IF TimedOut(resp.delay, timeout) THEN Throw(AbortError)
        ELSE Return(Str(HeaderOr(resp.ctype, "application/octet-stream")))

\* fetchBuffer(url, timeout), up to the response's status and headers
fetchBufferHeaders(w, url, timeout) ==
    LET resp == w.http[url].get
    IN  IF TimedOut(resp.delay, timeout) THEN Throw(AbortError)
        ELSE IF ~ResponseOk(resp) THEN Throw(HttpError(resp))
        ELSE Return(Str(HeaderOr(resp.ctype, "application/octet-stream")))

\* fetchBufferBody under a deadline that started when the probe was issued
fetchBufferBodySharedDeadline(w, url, timeout) ==
    LET resp == w.http[url].get
    IN  IF TimedOut(w.http[url].head.delay + resp.delay + resp.bodyDelay, timeout)
        THEN Throw(AbortError)
        ELSE Return([buffer |-> BufferOf(resp.body, resp.bodyZeros),
                     contentType |-> Str(HeaderOr(resp.ctype, "application/octet-stream"))])

\* fetchBufferBody that takes the content-type the probe declared
fetchBufferBodyProbeType(w, url, timeout) ==
    LET resp == w.http[url].get
    IN  IF TimedOut(resp.delay + resp.bodyDelay, timeout) THEN Throw(AbortError)
        ELSE Return([buffer |-> BufferOf(resp.body, resp.bodyZeros),
                     contentType |-> Str(HeaderOr(w.http[url].head.ctype, ""))])

\* fetchBufferBody whose timer is cleared when the response headers arrive
fetchBufferBodyNoDeadline(w, url, timeout) ==
    LET resp == w.http[url].get
    IN  Return([buffer |-> BufferOf(resp.body, resp.bodyZeros),
                contentType |-> Str(HeaderOr(resp.ctype, "application/octet-stream"))])

\* fetchBuffer(url, timeout), the read of the body under the same timer
fetchBufferBody(w, url, timeout) ==
    LET resp == w.http[url].get
    IN  IF TimedOut(resp.delay + resp.bodyDelay, timeout) THEN Throw(AbortError)
        ELSE Return([buffer |-> BufferOf(resp.body, resp.bodyZeros),
                     contentType |-> Str(HeaderOr(resp.ctype, "application/octet-stream"))])

(***************************************************************************)
(* validators/input-validator.js: the size gate as a function of its own.  *)
(***************************************************************************)
SizeLimitError(size, limit) ==
    Err("Error", "Size limit exceeded: " \o ToString(size) \o " > " \o ToString(limit)
                     \o " bytes. Set options.force to override")

validateSize(size, limit, force) ==
    IF ~force /\ size > limit THEN Throw(SizeLimitError(size, limit)) ELSE Return(Null)

(***************************************************************************)
(* Options: a record that holds only the fields the caller gave; a         *)
(* destructuring default applies to a field that is absent.                *)
(***************************************************************************)
OptForce(o) == IF "force" \in DOMAIN o THEN o.force ELSE FALSE
\* OptSizeLimit that keeps the default whatever the caller gave
OptSizeLimitKeepsDefault(o) == DEFAULT_SIZE_LIMIT
OptSizeLimit(o) == IF "sizeLimit" \in DOMAIN o THEN o.sizeLimit ELSE DEFAULT_SIZE_LIMIT
OptTimeout(o) == IF "timeout" \in DOMAIN o THEN o.timeout ELSE DEFAULT_TIMEOUT
OptConcurrency(o) == IF "concurrency" \in DOMAIN o THEN o.concurrency ELSE DEFAULT_CONCURRENCY

(***************************************************************************)
(* A per-input resolution (one encodeSingle call) is a task: the input, the *)
(* await it is suspended at (pc), the validated path, and its outcome once *)
(* it has settled.                                                         *)
(***************************************************************************)
Pending(path, pc, safePath) ==
    [path |-> path, pc |-> pc, safePath |-> safePath, outcome |-> Return(Null)]

Settled(path, outcome) ==
    [path |-> path, pc |-> "settled", safePath |-> "", outcome |-> outcome]

IsSettled(task) == task.pc = "settled"

\* encodeLocalFile, from its call to its first await
encodeLocalFileStart(filePath, o) ==
    LET safe == validatePath(filePath)
    IN  IF safe.threw THEN Settled(filePath, safe)
        ELSE Pending(filePath, "fileExists", safe.value.v)

\* AfterFileExists that goes on to the stat whatever the existence check said
AfterFileExistsStatsAnyway(task, o, w) ==
    Pending(task.path, "getFileSize", task.safePath)

\* encodeLocalFile, resumed at `await fileExists(safePath)`
AfterFileExists(task, o, w) ==
    IF ~fileExists(w, task.safePath)
    THEN Settled(task.path, Throw(Err("Error", "File not found: " \o task.path)))
    ELSE Pending(task.path, "getFileSize", task.safePath)

\* AfterGetFileSize with `size >= sizeLimit` for `size > sizeLimit`
AfterGetFileSizeInclusive(task, o, w) ==
    LET stat == getFileSize(w, task.safePath)
    IN  IF stat.threw THEN Settled(task.path, stat)
        ELSE IF ~OptForce(o) /\ stat.size >= OptSizeLimit(o)
        THEN Settled(task.path, Throw(SizeLimitError(stat.size, OptSizeLimit(o))))
        ELSE IF IsNull(getMimeType(task.safePath))
        THEN Settled(task.path,
                 Throw(Err("Error", "Unable to determine MIME type for: " \o task.path)))
        ELSE Pending(task.path, "readFileBuffer", task.safePath)

\* AfterGetFileSize with the media-type gate ahead of the size gate
AfterGetFileSizeTypeFirst(task, o, w) ==
    LET stat == getFileSize(w, task.safePath)
    IN  IF stat.threw THEN Settled(task.path, stat)
        ELSE IF IsNull(getMimeType(task.safePath))
        THEN Settled(task.path,
                 Throw(Err("Error", "Unable to determine MIME type for: " \o task.path)))
        ELSE IF ~OptForce(o) /\ stat.size > OptSizeLimit(o)
        THEN Settled(task.path, Throw(SizeLimitError(stat.size, OptSizeLimit(o))))
        ELSE Pending(task.path, "readFileBuffer", task.safePath)

\* encodeLocalFile, resumed at `await getFileSize(safePath)`
AfterGetFileSize(task, o, w) ==
    LET stat == getFileSize(w, task.safePath)
    IN  IF stat.threw THEN Settled(task.path, stat)
        ELSE IF ~OptForce(o) /\ stat.size > OptSizeLimit(o)
        THEN Settled(task.path, Throw(SizeLimitError(stat.size, OptSizeLimit(o))))
        ELSE IF IsNull(getMimeType(task.safePath))
        THEN Settled(task.path,
                 Throw(Err("Error", "Unable to determine MIME type for: " \o task.path)))
        ELSE Pending(task.path, "readFileBuffer", task.safePath)

\* encodeLocalFile, resumed at `await readFileBuffer(safePath)`
AfterReadFileBuffer(task, o, w) ==
    LET read == readFileBuffer(w, task.safePath)
    IN  IF read.threw THEN Settled(task.path, read)
        ELSE Settled(task.path, toDataUri(read.value, getMimeType(task.safePath)))

\* encodeRemoteUrl, from its call to its first await
encodeRemoteUrlStart(url, o) == Pending(url, "fetchMetadata", "")

\* AfterFetchMetadata without the gate on the declared content-length
AfterFetchMetadataNoDeclaredGate(task, o, w) ==
    LET meta == fetchMetadata(w, task.path, OptTimeout(o))
        contentType == meta.value.contentType
    IN  IF meta.threw THEN Settled(task.path, meta)
        ELSE IF ~isImage(contentType)
        THEN Settled(task.path,
                 Throw(Err("Error", "Not an image. Content-Type: " \o contentType
                                        \o ", URL: " \o task.path)))
        ELSE Pending(task.path, "fetch", "")

\* AfterFetchMetadata with the size gate ahead of the content-type gate
AfterFetchMetadataSizeFirst(task, o, w) ==
    LET meta == fetchMetadata(w, task.path, OptTimeout(o))
        contentType == meta.value.contentType
        contentLength == meta.value.contentLength
    IN  IF meta.threw THEN Settled(task.path, meta)
        ELSE IF ~contentLength.nan /\ contentLength.n > 0 /\ ~OptForce(o)
                /\ contentLength.n > OptSizeLimit(o)
        THEN Settled(task.path, Throw(SizeLimitError(contentLength.n, OptSizeLimit(o))))
        ELSE IF ~isImage(contentType)
        THEN Settled(task.path,
                 Throw(Err("Error", "Not an image. Content-Type: " \o contentType
                                        \o ", URL: " \o task.path)))
        ELSE Pending(task.path, "fetch", "")

\* AfterFetchMetadata that issues the probe a second time when the first one failed
AfterFetchMetadataRetriesOnce(task, o, w) ==
    LET meta == fetchMetadata(w, task.path, OptTimeout(o))
        contentType == meta.value.contentType
        contentLength == meta.value.contentLength
    IN  IF meta.threw /\ task.safePath = ""
        THEN Pending(task.path, "fetchMetadata", "retried")
        ELSE IF meta.threw THEN Settled(task.path, meta)
        ELSE IF ~isImage(contentType)
        THEN Settled(task.path,
                 Throw(Err("Error", "Not an image. Content-Type: " \o contentType
                                        \o ", URL: " \o task.path)))
        ELSE IF ~contentLength.nan /\ contentLength.n > 0 /\ ~OptForce(o)
                /\ contentLength.n > OptSizeLimit(o)
        THEN Settled(task.path, Throw(SizeLimitError(contentLength.n, OptSizeLimit(o))))
        ELSE Pending(task.path, "fetch", "")

\* encodeRemoteUrl, resumed at `await fetchMetadata(url, timeout)`
AfterFetchMetadata(task, o, w) ==
    LET meta == fetchMetadata(w, task.path, OptTimeout(o))
        contentType == meta.value.contentType
        contentLength == meta.value.contentLength
    IN  IF meta.threw THEN Settled(task.path, meta)
        ELSE IF ~isImage(contentType)
        THEN Settled(task.path,
                 Throw(Err("Error", "Not an image. Content-Type: " \o contentType
                                        \o ", URL: " \o task.path)))
        ELSE IF ~contentLength.nan /\ contentLength.n > 0 /\ ~OptForce(o)
                /\ contentLength.n > OptSizeLimit(o)
        THEN Settled(task.path, Throw(SizeLimitError(contentLength.n, OptSizeLimit(o))))
        ELSE Pending(task.path, "fetch", "")

\* fetchBuffer, resumed at `await fetch(url, {signal})`
AfterFetch(task, o, w) ==
    LET got == fetchBufferHeaders(w, task.path, OptTimeout(o))
    IN  IF got.threw THEN Settled(task.path, got)
        ELSE Pending(task.path, "arrayBuffer", "")

\* AfterArrayBuffer without the gate on the length of the downloaded body
AfterArrayBufferNoGate(task, o, w) ==
    LET got == fetchBufferBody(w, task.path, OptTimeout(o))
    IN  IF got.threw THEN Settled(task.path, got)
        ELSE Settled(task.path, toDataUri(got.value.buffer, got.value.contentType))

\* fetchBuffer resumed at `await response.arrayBuffer()`, then the rest of encodeRemoteUrl
AfterArrayBuffer(task, o, w) ==
    LET got == fetchBufferBody(w, task.path, OptTimeout(o))
    IN  IF got.threw THEN Settled(task.path, got)
        ELSE IF ~OptForce(o) /\ ByteLength(got.value.buffer) > OptSizeLimit(o)
        THEN Settled(task.path,
                 Throw(SizeLimitError(ByteLength(got.value.buffer), OptSizeLimit(o))))
        ELSE Settled(task.path, toDataUri(got.value.buffer, got.value.contentType))

\* encodeSingle(path, options), from its call to its first await
StartTask(path, o) ==
    IF isUrl(path) THEN encodeRemoteUrlStart(path, o) ELSE encodeLocalFileStart(path, o)

\* A suspended task resumed by the completion of the operation it awaits.
Resume(task, o, w) ==
    CASE task.pc = "fileExists" -> AfterFileExists(task, o, w)
      [] task.pc = "getFileSize" -> AfterGetFileSize(task, o, w)
      [] task.pc = "readFileBuffer" -> AfterReadFileBuffer(task, o, w)
      [] task.pc = "fetchMetadata" -> AfterFetchMetadata(task, o, w)
      [] task.pc = "fetch" -> AfterFetch(task, o, w)
      [] task.pc = "arrayBuffer" -> AfterArrayBuffer(task, o, w)

\* encodeSingle run alone to its end: the outcome of its promise.
RECURSIVE RunToEnd(_, _, _)
RunToEnd(task, o, w) == IF IsSettled(task) THEN task.outcome ELSE RunToEnd(Resume(task, o, w), o, w)

EncodedAlone(path, o, w) == RunToEnd(StartTask(path, o), o, w)

(***************************************************************************)
(* The result Map of encode: its entries in insertion order.               *)
(***************************************************************************)
Entry(key, data, error) == [key |-> key, data |-> data, error |-> error]

MapHas(m, key) == \E k \in 1..Len(m) : m[k].key = key

MapGet(m, key) == m[CHOOSE k \in 1..Len(m) : m[k].key = key]

MapKeys(m) == [k \in 1..Len(m) |-> m[k].key]

\* MapSet with a new key put first instead of last
MapSetFront(m, key, data, error) ==
    IF \E k \in 1..Len(m) : m[k].key = key
    THEN [k \in 1..Len(m) |-> IF m[k].key = key THEN [key |-> key, data |-> data, error |-> error]
                                                 ELSE m[k]]
    ELSE <<[key |-> key, data |-> data, error |-> error]>> \o m

\* Map.prototype.set: a new key is appended, a known key keeps its place
MapSet(m, key, data, error) ==
    IF MapHas(m, key)
    THEN [k \in 1..Len(m) |-> IF m[k].key = key THEN Entry(key, data, error) ELSE m[k]]
    ELSE Append(m, Entry(key, data, error))

\* Capture with a catch block that stores nothing
CaptureDropsFailure(m, task) ==
    IF task.outcome.threw THEN m ELSE MapSet(m, task.path, task.outcome.value, Null)

\* Capture with one slot shared by every task of the call
CaptureSharedSlot(m, task) ==
    IF task.outcome.threw
    THEN MapSet(m, "result", Null, task.outcome.value)
    ELSE MapSet(m, "result", task.outcome.value, Null)

\* The try/catch around `await encodeSingle(path, options)` in encode: the
\* settled task's outcome is stored in the slot of its path.
Capture(m, task) ==
    IF task.outcome.threw
    THEN MapSet(m, task.path, Null, task.outcome.value)
    ELSE MapSet(m, task.path, task.outcome.value, Null)

\* The tasks of a group that settle before any await do so in the group's order.
RECURSIVE CaptureSettled(_, _)
CaptureSettled(m, ts) ==
    IF Len(ts) = 0 THEN m
    ELSE CaptureSettled(IF IsSettled(Head(ts)) THEN Capture(m, Head(ts)) ELSE m, Tail(ts))

(***************************************************************************)
(* The operations issued to the file system and the network, counted per   *)
(* operation and input.                                                    *)
(***************************************************************************)
Count(log, op, path) ==
    IF <<op, path>> \in DOMAIN log
    THEN [log EXCEPT ![<<op, path>>] = @ + 1]
    ELSE log @@ (<<op, path>> :> 1)

\* the operation a task has just issued and now awaits, if any
Issue(log, task) == IF IsSettled(task) THEN log ELSE Count(log, task.pc, task.path)

\* the request a task is in while it awaits the operation pc, if any: the HEAD
\* request of fetchMetadata, or the GET request of fetchBuffer, which spans
\* the fetch and the reading of the body
RequestOf(pc) ==
    CASE pc = "fetchMetadata" -> "fetchMetadata"
      [] pc \in {"fetch", "arrayBuffer"} -> "fetchBuffer"
      [] OTHER -> ""

\* setTimeout(() => controller.abort(), timeout) and clearTimeout(timeoutId)
SetTimeout(log, request, url) == Count(log, "setTimeout:" \o request, url)
ClearTimeout(log, request, url) == Count(log, "clearTimeout:" \o request, url)

\* Timers with a fetchBuffer that has no finally block
TimersFetchBufferLeaks(log, before, after) ==
    LET left == RequestOf(before.pc)
        entered == RequestOf(after.pc)
        released == IF left = "fetchMetadata" /\ entered # left
                    THEN ClearTimeout(log, left, before.path) ELSE log
    IN  IF entered # "" /\ entered # left
        THEN SetTimeout(released, entered, after.path) ELSE released

\* The timer calls a task makes from one await to the next: the finally block
\* of the request it leaves, by return or by throw, clears that request's
\* timer, and the request it enters sets its own.
Timers(log, before, after) ==
    LET left == RequestOf(before.pc)
        entered == RequestOf(after.pc)
        released == IF left # "" /\ entered # left
                    THEN ClearTimeout(log, left, before.path) ELSE log
    IN  IF entered # "" /\ entered # left
        THEN SetTimeout(released, entered, after.path) ELSE released

\* what a task does from one await to the next: its timer calls, and the
\* operation it then awaits
Step(log, before, after) == Issue(Timers(log, before, after), after)

\* a call of encodeSingle that has not run yet
NotStarted(path) == Pending(path, "called", "")

\* the tasks just started: a call of encodeSingle each, and what it does up to
\* its first await
RECURSIVE IssueAll(_, _)
IssueAll(log, ts) ==
    IF Len(ts) = 0 THEN log
    ELSE IssueAll(Step(Count(log, "encodeSingle", Head(ts).path),
                       NotStarted(Head(ts).path), Head(ts)),
                  Tail(ts))

Issued(log, op, path) == IF <<op, path>> \in DOMAIN log THEN log[<<op, path>>] ELSE 0

(***************************************************************************)
(* The worlds and the calls the model starts from.                         *)
(***************************************************************************)
PngBytes == <<137, 80>>
BigBytes == <<1, 2, 3>>

OkHead(ctype, clen) == Response(0, 200, "OK", ctype, clen, 0, <<>>)
OkGet(ctype, body) == Response(0, 200, "OK", ctype, Null, 0, body)
NotFoundResponse == Response(0, 404, "Not Found", Null, Null, 0, <<>>)
SlowResponse == Response(DEFAULT_TIMEOUT, 200, "OK", Str("image/png"), Null, 0, PngBytes)

BaseWorld ==
    [files |-> ("/w/a.png" :> File(2, PngBytes)) @@ ("/w/big.png" :> File(3, BigBytes))
                   @@ ("/w/b.xyz" :> File(1, <<7>>)),
     http |-> ("http://h/i.png" :> Site(OkHead(Str("image/png"), Str("2")),
                                        OkGet(Str("image/png"), PngBytes)))
                  @@ ("HTTPS://h/page" :> Site(OkHead(Str("text/html"), Str("9")),
                                               OkGet(Str("text/html"), BigBytes)))
                  @@ ("http://h/404" :> Site(NotFoundResponse, NotFoundResponse))
                  @@ ("http://h/slow" :> Site(SlowResponse, SlowResponse))]

\* the inputs of the batches of up to MaxInputs inputs
BatchInputs == {"a.png", "./a.png", "no.png", "../x.png", "http://h/i.png", "http://h/404"}

\* the inputs of the single calls and of the batches of one or two inputs
Inputs ==
    BatchInputs \cup {"big.png", "b.xyz", "HTTPS://h/page", "http://h/slow"}

Array(items) == [t |-> "array", items |-> items]

InputArrays ==
    UNION {[1..n -> BatchInputs] : n \in 0..MaxInputs} \cup UNION {[1..n -> Inputs] : n \in 1..2}

OptionSets ==
    {<<>>, [force |-> TRUE], [sizeLimit |-> 2]}
        \cup {[concurrency |-> c] : c \in -1..2}
        \cup {[sizeLimit |-> 2, concurrency |-> c] : c \in 1..2}

Calls ==
    {[fn |-> "encode", paths |-> Array(a), options |-> o] : a \in InputArrays, o \in OptionSets}
        \cup {[fn |-> "encode", paths |-> Str(p), options |-> o] : p \in Inputs, o \in OptionSets}
        \cup {[fn |-> "encodeSingle", paths |-> Str(p), options |-> o] :
                  p \in Inputs, o \in OptionSets}

(***************************************************************************)
(* The worlds and calls that exercise the gates of one resolution: a file  *)
(* of every size up to MaxSize, and a site whose HEAD response declares    *)
(* any of the types and lengths below and whose GET response carries a     *)
(* body of every length up to MaxSize.                                     *)
(***************************************************************************)
Bytes(n) == [k \in 1..n |-> 64 + k]

DeclaredTypes == {Null, Str(""), Str("text/html"), Str("image/png"), Str("IMAGE/GIF")}
DeclaredLengths == {Null, Str("abc"), Str("0"), Str("-1")} \cup {Str(ToString(n)) : n \in 1..MaxSize}
ActualTypes == {Null, Str(""), Str("image/png"), Str("text/html")}

FileWorlds ==
    {[files |-> ("/w/a.png" :> File(n, Bytes(n))) @@ ("/w/b.xyz" :> File(n, Bytes(n))),
      http |-> BaseWorld.http] : n \in 0..MaxSize}

SiteWorlds ==
    {[files |-> BaseWorld.files,
      http |-> ("http://h/i.png" :> Site(OkHead(ctype, clen), OkGet(actual, Bytes(n))))] :
         ctype \in DeclaredTypes, clen \in DeclaredLengths, actual \in ActualTypes,
         n \in 0..MaxSize}

GateOptionSets ==
    {<<>>, [force |-> TRUE]}
        \cup {[sizeLimit |-> limit] : limit \in 0..MaxLimit}
        \cup {[sizeLimit |-> limit, force |-> f] : limit \in 0..MaxLimit, f \in BOOLEAN}

GateCalls(paths) ==
    {[fn |-> "encodeSingle", paths |-> Str(p), options |-> o] : p \in paths, o \in GateOptionSets}

(***************************************************************************)
(* The worlds and calls that exercise the deadlines and the status checks  *)
(* of the two requests of a remote resolution: a site whose HEAD response, *)
(* GET response and GET body each take up to MaxDelay ms, called with a    *)
(* timeout below MaxDelay or the default one; and a site whose HEAD and    *)
(* GET responses carry any of the statuses below.                          *)
(***************************************************************************)
Statuses == {200, 204, 301, 403, 404, 500}

StatusText(status) ==
    CASE status = 200 -> "OK"
      [] status = 204 -> "No Content"
      [] status = 301 -> "Moved Permanently"
      [] status = 403 -> "Forbidden"
      [] status = 404 -> "Not Found"
      [] status = 500 -> "Internal Server Error"

TimeWorlds ==
    {[files |-> BaseWorld.files,
      http |-> ("http://h/i.png" :>
                   Site(Response(dh, hs, StatusText(hs), Str("image/png"), Null, 0, <<>>),
                        Response(dg, gs, StatusText(gs), Str("image/png"), Null, db,
                                 PngBytes)))] :
         dh \in 0..MaxDelay, dg \in 0..MaxDelay, db \in 0..MaxDelay,
         hs \in {200, 404}, gs \in {200, 404}}

TimeOptionSets == {<<>>} \cup {[timeout |-> t] : t \in 1..(MaxDelay - 1)}

StatusWorlds ==
    {[files |-> BaseWorld.files,
      http |-> ("http://h/i.png" :>
                   Site(Response(0, hs, StatusText(hs), Str("image/png"), Null, 0, <<>>),
                        Response(0, gs, StatusText(gs), Str("image/png"), Null, 0, PngBytes)))] :
         hs \in Statuses, gs \in Statuses}

(***************************************************************************)
(* The worlds and calls at the default size limit: a file and a body of    *)
(* exactly DEFAULT_SIZE_LIMIT zero bytes and of one byte more, and a probe  *)
(* that declares either length for a short body.                           *)
(***************************************************************************)
BoundarySizes == {DEFAULT_SIZE_LIMIT, DEFAULT_SIZE_LIMIT + 1}

BoundaryWorlds ==
    {[files |-> ("/w/a.png" :> AllocFile(n)),
      http |-> ("http://h/i.png" :> Site(OkHead(Str("image/png"), Null),
                                         AllocBody(OkGet(Str("image/png"), <<>>), n)))] :
         n \in BoundarySizes}

DeclaredBoundaryWorlds ==
    {[files |-> BaseWorld.files,
      http |-> ("http://h/i.png" :> Site(OkHead(Str("image/png"), Str(ToString(n))),
                                         OkGet(Str("image/png"), PngBytes)))] :
         n \in BoundarySizes}

BoundaryOptionSets ==
    {<<>>, [force |-> TRUE], [sizeLimit |-> 2], [sizeLimit |-> DEFAULT_SIZE_LIMIT + 1]}

\* encodeSingle(p, o) and encode(p, o) for the inputs and option sets given
SingleCalls(paths, optionSets) ==
    {[fn |-> f, paths |-> Str(p), options |-> o] :
         f \in {"encodeSingle", "encode"}, p \in paths, o \in optionSets}

(***************************************************************************)
(* The inputs that exercise the classification of an input and the         *)
(* validation of a local path, each called on its own in the base world.   *)
(***************************************************************************)
PathInputs ==
    {"../x", "../../etc/passwd", "a/../../x", "./../x.png", "../w/a.png",
     "a/../a.png", "././a.png", "./sub/../a.png", "sub/a.png",
     "/etc/passwd", "/tmp/nonexistent.png", "/w/a.png", "/w/../w/a.png", "/../etc/passwd",
     "a..b.png", "img/a..b.png", "/data/v1..2/x.png",
     "C:\\x.png", "ftp://h/x.png", " http://h/i.png", "http:/h/i.png", "httpx://h/i.png",
     "file:///w/a.png"}

(***************************************************************************)
(* The state: one call of the public API, from the call to the settling of *)
(* the promise it returns.                                                 *)
(***************************************************************************)
VARIABLES
    call,         \* the call: [fn, paths, options]
    world,        \* the files and the sites
    phase,        \* "called", "loop" (encode's loop head), "awaiting", "done"
    uniquePaths,  \* encode: the deduplicated inputs
    i,            \* encode: the loop index
    tasks,        \* the per-input resolutions of the group being awaited
    results,      \* encode: the result Map
    promise,      \* the promise the call returned: [state, value]
    io,           \* the operations issued so far
    parked,       \* the calls in flight that are not running now, each with its state
    callbackCalls \* encodeLegacy: the calls made to the callback, each [err, results]

vars ==
    <<call, world, phase, uniquePaths, i, tasks, results, promise, io, parked, callbackCalls>>

Init ==
    /\ \/ call \in Calls /\ world = BaseWorld
       \/ call \in SingleCalls(PathInputs, {<<>>}) /\ world = BaseWorld
       \/ call \in SingleCalls({"http://h/i.png"}, TimeOptionSets) /\ world \in TimeWorlds
       \/ call \in SingleCalls({"http://h/i.png"}, {<<>>}) /\ world \in StatusWorlds
       \/ /\ call \in SingleCalls({"a.png", "http://h/i.png"}, BoundaryOptionSets)
          /\ world \in BoundaryWorlds
       \/ /\ call \in SingleCalls({"http://h/i.png"}, BoundaryOptionSets)
          /\ world \in DeclaredBoundaryWorlds
       \/ call \in GateCalls({"a.png", "b.xyz"}) /\ world \in FileWorlds
       \/ call \in GateCalls({"http://h/i.png"}) /\ world \in SiteWorlds
    /\ phase = "called"
    /\ uniquePaths = <<>>
    /\ i = 0
    /\ tasks = <<>>
    /\ results = <<>>
    /\ promise = [state |-> "pending", value |-> Null]
    /\ io = <<>>
    /\ parked = <<>>
    /\ callbackCalls = <<>>

\* PathArray that takes anything but an array for no input at all
PathArrayNoWrap(paths) == IF paths.t = "array" THEN paths.items ELSE <<>>

\* Array.isArray(paths) ? paths : [paths]
PathArray(paths) == IF paths.t = "array" THEN paths.items ELSE <<paths.v>>

\* encode(paths, options), up to the head of its loop
EncodeCalled ==
    /\ phase = "called"
    /\ call.fn = "encode"
    /\ uniquePaths' = Unique(PathArray(call.paths))
    /\ results' = <<>>
    /\ i' = 0
    /\ phase' = "loop"
    /\ UNCHANGED <<call, world, parked, callbackCalls, tasks, promise, io>>

\* Batch with a group one input too long
BatchOffByOne(paths, index, concurrency) == Slice(paths, index, index + concurrency + 1)

\* uniquePaths.slice(i, i + concurrency)
Batch(paths, index, concurrency) == Slice(paths, index, index + concurrency)

\* The tasks batch.map(...) starts, each run to its first await.
StartGroup(batch, o) == [k \in 1..Len(batch) |-> StartTask(batch[k], o)]

\* One turn of encode's loop: the next group is sliced off and all its tasks start.
Dispatch ==
    /\ phase = "loop"
    /\ i < Len(uniquePaths)
    /\ \E started \in {StartGroup(Batch(uniquePaths, i, OptConcurrency(call.options)),
                                   call.options)} :
           /\ tasks' = started
           /\ results' = CaptureSettled(results, started)
           /\ io' = IssueAll(io, started)
    /\ phase' = "awaiting"
    /\ UNCHANGED <<call, world, parked, callbackCalls, uniquePaths, i, promise>>

\* Complete with one abort signal for the whole group: the abort of one request
\* aborts every request of the group that is still pending
CompleteAbortsGroup(k) ==
    /\ phase = "awaiting"
    /\ k \in 1..Len(tasks)
    /\ ~IsSettled(tasks[k])
    /\ \E next \in {Resume(tasks[k], call.options, world)} :
           LET aborted == IsSettled(next) /\ next.outcome = Throw(AbortError)
           IN  tasks' = [j \in 1..Len(tasks) |->
                            IF j = k THEN next
                            ELSE IF aborted /\ ~IsSettled(tasks[j]) /\ isUrl(tasks[j].path)
                            THEN Settled(tasks[j].path, Throw(AbortError))
                            ELSE tasks[j]]
    /\ io' = Step(io, tasks[k], tasks'[k])
    /\ results' = IF call.fn = "encode" THEN CaptureSettled(results, tasks') ELSE results
    /\ UNCHANGED <<call, world, parked, callbackCalls, phase, uniquePaths, i, promise>>

\* Complete without the try/catch: a failing task rejects Promise.all and with it encode
CompleteNoCatch(k) ==
    /\ phase = "awaiting"
    /\ k \in 1..Len(tasks)
    /\ ~IsSettled(tasks[k])
    /\ tasks' = [tasks EXCEPT ![k] = Resume(tasks[k], call.options, world)]
    /\ io' = Step(io, tasks[k], tasks'[k])
    /\ results' = IF call.fn = "encode" /\ IsSettled(tasks'[k]) /\ ~tasks'[k].outcome.threw
                  THEN Capture(results, tasks'[k]) ELSE results
    /\ IF call.fn = "encode" /\ IsSettled(tasks'[k]) /\ tasks'[k].outcome.threw
       THEN /\ promise' = [state |-> "rejected", value |-> tasks'[k].outcome.value]
            /\ phase' = "done"
       ELSE UNCHANGED <<phase, promise>>
    /\ UNCHANGED <<call, world, parked, callbackCalls, uniquePaths, i>>

\* The operation a task awaits completes and the task runs on to its next await
\* or to its end; in encode its outcome is then stored.
Complete(k) ==
    /\ phase = "awaiting"
    /\ k \in 1..Len(tasks)
    /\ ~IsSettled(tasks[k])
    /\ tasks' = [tasks EXCEPT ![k] = Resume(tasks[k], call.options, world)]
    /\ io' = Step(io, tasks[k], tasks'[k])
    /\ results' = IF call.fn = "encode" /\ IsSettled(tasks'[k])
                  THEN Capture(results, tasks'[k]) ELSE results
    /\ UNCHANGED <<call, world, parked, callbackCalls, phase, uniquePaths, i, promise>>

\* i += concurrency, kept above -MaxNegIndex: every negative index selects the
\* same (empty) slice, so nothing the loop does depends on how far below 0 it is.
NextIndex(index, concurrency) == Max(index + concurrency, 0 - MaxNegIndex)

\* GroupSettled with Promise.race in place of Promise.all: the loop goes on as
\* soon as one member of the group has settled
GroupSettledOnFirst ==
    /\ phase = "awaiting"
    /\ call.fn = "encode"
    /\ \E k \in 1..Len(tasks) : IsSettled(tasks[k])
    /\ i' = NextIndex(i, OptConcurrency(call.options))
    /\ tasks' = <<>>
    /\ phase' = "loop"
    /\ UNCHANGED <<call, world, parked, callbackCalls, uniquePaths, results, promise, io>>

\* Promise.all of the group has resolved: the loop goes on to its next turn.
GroupSettled ==
    /\ phase = "awaiting"
    /\ call.fn = "encode"
    /\ \A k \in 1..Len(tasks) : IsSettled(tasks[k])
    /\ i' = NextIndex(i, OptConcurrency(call.options))
    /\ tasks' = <<>>
    /\ phase' = "loop"
    /\ UNCHANGED <<call, world, parked, callbackCalls, uniquePaths, results, promise, io>>

\* The loop ends and encode returns the result Map.
EncodeReturns ==
    /\ phase = "loop"
    /\ ~(i < Len(uniquePaths))
    /\ promise' = [state |-> "fulfilled", value |-> Null]
    /\ phase' = "done"
    /\ UNCHANGED <<call, world, parked, callbackCalls, uniquePaths, i, tasks, results, io>>

\* encodeSingle(path, options) called on its own
EncodeSingleCalled ==
    /\ phase = "called"
    /\ call.fn = "encodeSingle"
    /\ \E started \in {<<StartTask(call.paths.v, call.options)>>} :
           /\ tasks' = started
           /\ io' = IssueAll(io, started)
    /\ phase' = "awaiting"
    /\ UNCHANGED <<call, world, parked, callbackCalls, uniquePaths, i, results, promise>>

\* SettlePromise that resolves with the error instead of rejecting
SettlePromiseSwallows(outcome) == [state |-> "fulfilled", value |-> outcome.value]

\* The promise of a lone encodeSingle settles as its task did.
SettlePromise(outcome) ==
    [state |-> IF outcome.threw THEN "rejected" ELSE "fulfilled", value |-> outcome.value]

EncodeSingleSettles ==
    /\ phase = "awaiting"
    /\ call.fn = "encodeSingle"
    /\ IsSettled(tasks[1])
    /\ promise' = SettlePromise(tasks[1].outcome)
    /\ phase' = "done"
    /\ UNCHANGED <<call, world, parked, callbackCalls, uniquePaths, i, tasks, results, io>>

Next ==
    \/ EncodeCalled
    \/ Dispatch
    \/ \E k \in DOMAIN tasks : Complete(k)
    \/ GroupSettled
    \/ EncodeReturns
    \/ EncodeSingleCalled
    \/ EncodeSingleSettles

Spec == Init /\ [][Next]_vars

\* The steps of EncodeCalled, Dispatch and EncodeSingleCalled, told by their
\* guard and the phase they lead to: under Next a step out of a called encode
\* is an EncodeCalled step, a step from the loop head with inputs left is a
\* Dispatch step, and a step out of a called encodeSingle is an
\* EncodeSingleCalled step; each action is enabled whenever its guard holds.
EncodeCalledStep == phase = "called" /\ call.fn = "encode" /\ phase' = "loop"
DispatchStep == phase = "loop" /\ i < Len(uniquePaths) /\ phase' = "awaiting"
EncodeSingleCalledStep == phase = "called" /\ call.fn = "encodeSingle" /\ phase' = "awaiting"

\* Complete(k) is enabled exactly when task k of the awaited group is pending.
CompleteReady == phase = "awaiting" /\ \E k \in DOMAIN tasks : ~IsSettled(tasks[k])

\* Every step that is ready is eventually taken: the event loop runs every
\* completion and every continuation that is ready. The last conjunct is
\* WF_vars(\E k \in DOMAIN tasks : Complete(k)) with ENABLED written out.
FairSpec ==
    /\ Spec
    /\ WF_phase(EncodeCalledStep)
    /\ WF_phase(DispatchStep)
    /\ WF_vars(GroupSettled)
    /\ WF_vars(EncodeReturns)
    /\ WF_phase(EncodeSingleCalledStep)
    /\ WF_vars(EncodeSingleSettles)
    /\ ([]<>~CompleteReady \/ []<><<\E k \in DOMAIN tasks : Complete(k)>>_vars)

(***************************************************************************)
(* Two calls in flight at once.  JavaScript runs one continuation at a     *)
(* time, so the calls interleave at their awaits: between two steps of the *)
(* running call the event loop may run a step of the other.  The state of  *)
(* the call that is not running is parked; Switch makes it the running one.*)
(* Each call has its own options, loop variables, tasks, result Map and    *)
(* promise; the world is the only thing the two share (the module-level    *)
(* values are constants, and URL_PATTERN has no g or y flag, so test()     *)
(* leaves no lastIndex behind).                                            *)
(***************************************************************************)
PairInputs == <<"big.png", "http://h/slow">>

PairCalls ==
    {[fn |-> "encode", paths |-> Array(PairInputs), options |-> o] :
         o \in {[sizeLimit |-> 2, concurrency |-> 1], [concurrency |-> 2],
                [force |-> TRUE, timeout |-> DEFAULT_TIMEOUT + 1]}}
        \cup {[fn |-> "encodeSingle", paths |-> Str("big.png"), options |-> o] :
                  o \in {<<>>, [sizeLimit |-> 2], [sizeLimit |-> 2, force |-> TRUE]}}
        \cup {[fn |-> "encodeSingle", paths |-> Str("http://h/slow"), options |-> o] :
                  o \in {<<>>, [timeout |-> DEFAULT_TIMEOUT + 1]}}

\* a call that was made and has not run yet
Fresh(c) ==
    [call |-> c, phase |-> "called", uniquePaths |-> <<>>, i |-> 0, tasks |-> <<>>,
     results |-> <<>>, promise |-> [state |-> "pending", value |-> Null], io |-> <<>>]

\* the running call with its state
Running ==
    [call |-> call, phase |-> phase, uniquePaths |-> uniquePaths, i |-> i, tasks |-> tasks,
     results |-> results, promise |-> promise, io |-> io]

PairInit ==
    /\ \E first \in PairCalls, second \in PairCalls :
           /\ first # second
           /\ call = first
           /\ parked = <<Fresh(second)>>
    /\ world = BaseWorld
    /\ phase = "called"
    /\ uniquePaths = <<>>
    /\ i = 0
    /\ tasks = <<>>
    /\ results = <<>>
    /\ promise = [state |-> "pending", value |-> Null]
    /\ io = <<>>
    /\ callbackCalls = <<>>

\* Switch with one result Map for the two calls
SwitchSharedResults ==
    /\ parked # <<>>
    /\ parked' = <<Running>>
    /\ call' = parked[1].call
    /\ phase' = parked[1].phase
    /\ uniquePaths' = parked[1].uniquePaths
    /\ i' = parked[1].i
    /\ tasks' = parked[1].tasks
    /\ promise' = parked[1].promise
    /\ io' = parked[1].io
    /\ UNCHANGED <<world, results, callbackCalls>>

\* The event loop turns to the other call: its state is taken up where it was left.
Switch ==
    /\ parked # <<>>
    /\ parked' = <<Running>>
    /\ call' = parked[1].call
    /\ phase' = parked[1].phase
    /\ uniquePaths' = parked[1].uniquePaths
    /\ i' = parked[1].i
    /\ tasks' = parked[1].tasks
    /\ results' = parked[1].results
    /\ promise' = parked[1].promise
    /\ io' = parked[1].io
    /\ UNCHANGED <<world, callbackCalls>>

PairNext ==
    \/ EncodeCalled
    \/ Dispatch
    \/ \E k \in DOMAIN tasks : Complete(k)
    \/ GroupSettled
    \/ EncodeReturns
    \/ EncodeSingleCalled
    \/ EncodeSingleSettles
    \/ Switch

PairSpec == PairInit /\ [][PairNext]_vars

(***************************************************************************)
(* A file system that other processes write to.  Between two awaits of a   *)
(* resolution any file may be rewritten: what fileExists, stat and         *)
(* readFile answer is what is on disk when each of them runs.              *)
(***************************************************************************)
RaceInputs == <<"a.png", "b.xyz">>

RaceCalls ==
    {[fn |-> "encodeSingle", paths |-> Str(p), options |-> o] :
         p \in {"a.png", "b.xyz"}, o \in GateOptionSets}
        \cup {[fn |-> "encode", paths |-> Array(RaceInputs), options |-> o] :
                  o \in {[sizeLimit |-> 2], [sizeLimit |-> 2, concurrency |-> 1]}}

RaceInit ==
    /\ call \in RaceCalls
    /\ world \in FileWorlds
    /\ phase = "called"
    /\ uniquePaths = <<>>
    /\ i = 0
    /\ tasks = <<>>
    /\ results = <<>>
    /\ promise = [state |-> "pending", value |-> Null]
    /\ io = <<>>
    /\ parked = <<>>
    /\ callbackCalls = <<>>

\* Another process rewrites a file while a resolution is awaiting an operation.
FileChanges ==
    /\ phase = "awaiting"
    /\ \E f \in DOMAIN world.files, n \in 0..MaxSize :
           /\ world.files[f] # File(n, Bytes(n))
           /\ world' = [world EXCEPT !.files[f] = File(n, Bytes(n))]
    /\ UNCHANGED <<call, parked, callbackCalls, phase, uniquePaths, i, tasks, results,
                   promise, io>>

RaceNext ==
    \/ EncodeCalled
    \/ Dispatch
    \/ \E k \in DOMAIN tasks : Complete(k)
    \/ GroupSettled
    \/ EncodeReturns
    \/ EncodeSingleCalled
    \/ EncodeSingleSettles
    \/ FileChanges

RaceSpec == RaceInit /\ [][RaceNext]_vars

(***************************************************************************)
(* encodeLegacy(paths, options, callback).  A callback is a function that  *)
(* returns or throws when it is called.  An object is its own properties   *)
(* (a function from their keys; their order plays no part here) and its    *)
(* prototype; a fresh {} has none of its own and Object.prototype above it.*)
(***************************************************************************)
Fn(throws) == [t |-> "function", throws |-> throws]
\* typeof / === null on an argument that may be an options object
IsA(v, type) == "t" \in DOMAIN v /\ v.t = type
CallbackError == Err("Error", "thrown by the callback")

ObjectPrototype == [t |-> "Object.prototype"]
EmptyObject == [t |-> "object", own |-> <<>>, proto |-> ObjectPrototype]
LegacyResult(entry) == [t |-> "object", err |-> entry.error, data |-> entry.data]

\* obj[key] = value on an ordinary object: the key __proto__ is the accessor
\* of Object.prototype, whose setter makes an object value the prototype
ObjSet(obj, key, value) ==
    IF key = "__proto__"
    THEN [obj EXCEPT !.proto = value]
    ELSE [obj EXCEPT !.own = [k \in DOMAIN obj.own \cup {key} |->
                                 IF k = key THEN value ELSE obj.own[k]]]

\* Object.keys(obj)
ObjKeys(obj) == DOMAIN obj.own

\* obj[key]: an own property, the prototype for __proto__, or what the
\* prototype hands down
ObjGet(obj, key) ==
    IF key \in DOMAIN obj.own THEN obj.own[key]
    ELSE IF key = "__proto__" THEN obj.proto
    ELSE IF obj.proto # ObjectPrototype /\ key = "err" THEN obj.proto.err
    ELSE IF obj.proto # ObjectPrototype /\ key = "data" THEN obj.proto.data
    ELSE Undefined

\* for (const [path, result] of results) resultsObject[path] = {err, data}
RECURSIVE ToResultsObject(_, _)
ToResultsObject(m, obj) ==
    IF Len(m) = 0 THEN obj
    ELSE ToResultsObject(Tail(m), ObjSet(obj, Head(m).key, LegacyResult(Head(m))))

LegacyInputs == {"a.png", "no.png", "http://h/404", "__proto__"}

LegacyPaths ==
    {Array(a) : a \in UNION {[1..n -> LegacyInputs] : n \in 0..2}}
        \cup {Str(p) : p \in LegacyInputs}

LegacyOptionSets == {<<>>, [sizeLimit |-> 1], [concurrency |-> 1], Null}

\* encodeLegacy(paths, options, callback) and encodeLegacy(paths, callback)
LegacyCalls ==
    {[fn |-> "encodeLegacy", paths |-> p, options |-> o, callback |-> Fn(throws)] :
         p \in LegacyPaths, o \in LegacyOptionSets, throws \in BOOLEAN}
        \cup {[fn |-> "encodeLegacy", paths |-> p, options |-> Fn(throws), callback |-> Undefined] :
                  p \in LegacyPaths, throws \in BOOLEAN}

LegacyInit ==
    /\ call \in LegacyCalls
    /\ world = BaseWorld
    /\ phase = "called"
    /\ uniquePaths = <<>>
    /\ i = 0
    /\ tasks = <<>>
    /\ results = <<>>
    /\ promise = [state |-> "pending", value |-> Null]
    /\ io = <<>>
    /\ parked = <<>>
    /\ callbackCalls = <<>>

\* encodeLegacy up to its call of encode: the warning, the shift of the
\* arguments when options is the callback, and encode(paths, options) called.
\* encode destructures options first, which throws when options is null.
EncodeLegacyCalled ==
    /\ phase = "called"
    /\ call.fn = "encodeLegacy"
    /\ io' = Count(io, "console.warn", "")
    /\ LET shifted == IsA(call.options, "function")
           options == IF shifted THEN <<>> ELSE call.options
           callback == IF shifted THEN call.options ELSE call.callback
       IN  IF IsA(options, "null")
           THEN /\ call' = [fn |-> "encode", paths |-> call.paths, options |-> options,
                            callback |-> callback, given |-> call]
                /\ promise' = [state |-> "rejected",
                               value |-> Err("TypeError",
                                   "Cannot destructure property 'concurrency' of 'options' as it is null.")]
                /\ phase' = "done"
           ELSE /\ call' = [fn |-> "encode", paths |-> call.paths, options |-> options,
                            callback |-> callback, given |-> call]
                /\ UNCHANGED <<phase, promise>>
    /\ UNCHANGED <<world, uniquePaths, i, tasks, results, parked, callbackCalls>>

\* .then((results) => ...): encode has returned its Map; the object is built
\* and the callback is called with it. A callback that throws rejects the
\* promise of then, which the catch below handles.
LegacyThen ==
    /\ phase = "done"
    /\ "callback" \in DOMAIN call
    /\ promise.state = "fulfilled"
    /\ callbackCalls' = <<[err |-> Null, results |-> ToResultsObject(results, EmptyObject)]>>
    /\ phase' = IF call.callback.throws THEN "caught" ELSE "returned"
    /\ UNCHANGED <<call, world, uniquePaths, i, tasks, results, promise, io, parked>>

\* .catch((error) => callback(error)): encode has rejected, or the callback
\* has thrown in then
LegacyCatch ==
    /\ "callback" \in DOMAIN call
    /\ \/ phase = "done" /\ promise.state = "rejected"
       \/ phase = "caught"
    /\ callbackCalls' =
           Append(callbackCalls,
                  [err |-> IF phase = "caught" THEN CallbackError ELSE promise.value,
                   results |-> Undefined])
    /\ phase' = "returned"
    /\ UNCHANGED <<call, world, uniquePaths, i, tasks, results, promise, io, parked>>

LegacyNext ==
    \/ EncodeLegacyCalled
    \/ EncodeCalled
    \/ Dispatch
    \/ \E k \in DOMAIN tasks : Complete(k)
    \/ GroupSettled
    \/ EncodeReturns
    \/ LegacyThen
    \/ LegacyCatch

LegacySpec == LegacyInit /\ [][LegacyNext]_vars

(***************************************************************************)
(* The encoder called on its own: toDataUri(buffer, mimeType) with a       *)
(* buffer of up to MaxBytes bytes or a value that is no Buffer, and a      *)
(* media type or a value that is none, called twice with the same          *)
(* arguments.  `results` holds the outcome of each call.                   *)
(***************************************************************************)
EncoderBytes == {0, 63, 116, 137, 251, 255}
TestBytes == <<116, 101, 115, 116>>
PngHeader == <<137, 80, 78, 71>>

EncoderBuffers ==
    {Buffer(b) : b \in UNION {[1..n -> EncoderBytes] : n \in 0..MaxBytes}}
        \cup {Buffer(TestBytes), Buffer(PngHeader)}
        \cup {BufferOf(b, z) : b \in UNION {[1..n -> {1, 255}] : n \in 0..1}, z \in 1..MaxBytes}

NonBuffers ==
    {Str("not a buffer"), Str(""), Null, Undefined, Num(5), [t |-> "array", items |-> <<116>>],
     [t |-> "uint8array", bytes |-> <<116>>]}

MediaTypes == {Str("text/plain"), Str("image/png"), Str("x"), Str(" ")}
NonMediaTypes == {Str(""), Null, Undefined, Num(0), Num(1), Buffer(TestBytes)}

EncoderCalls ==
    {[fn |-> "toDataUri", buffer |-> b, mimeType |-> m] :
         b \in EncoderBuffers \cup NonBuffers, m \in MediaTypes \cup NonMediaTypes}

EncoderInit ==
    /\ call \in EncoderCalls
    /\ world = BaseWorld
    /\ phase = "called"
    /\ uniquePaths = <<>>
    /\ i = 0
    /\ tasks = <<>>
    /\ results = <<>>
    /\ promise = [state |-> "pending", value |-> Null]
    /\ io = <<>>
    /\ parked = <<>>
    /\ callbackCalls = <<>>

ToDataUriCalled ==
    /\ phase = "called"
    /\ results' = <<toDataUri(call.buffer, call.mimeType)>>
    /\ phase' = "returned"
    /\ UNCHANGED <<call, world, parked, callbackCalls, uniquePaths, i, tasks, promise, io>>

ToDataUriCalledAgain ==
    /\ phase = "returned"
    /\ results' = Append(results, toDataUri(call.buffer, call.mimeType))
    /\ phase' = "done"
    /\ UNCHANGED <<call, world, parked, callbackCalls, uniquePaths, i, tasks, promise, io>>

EncoderNext == ToDataUriCalled \/ ToDataUriCalledAgain

EncoderSpec == EncoderInit /\ [][EncoderNext]_vars

(***************************************************************************)
(* What the properties below speak of: the inputs as the caller gave them, *)
(* and the entry encode stores for an input resolved on its own.           *)
(***************************************************************************)
IsEncode == call.fn = "encode"
Fulfilled == promise.state = "fulfilled"
Concurrency == OptConcurrency(call.options)

GivenInputs == IF call.paths.t = "array" THEN call.paths.items ELSE <<call.paths.v>>
GivenSet == {GivenInputs[k] : k \in 1..Len(GivenInputs)}

StoredAlone(p) ==
    LET alone == EncodedAlone(p, call.options, world)
    IN  IF alone.threw THEN Entry(p, Null, alone.value) ELSE Entry(p, alone.value, Null)

\* the place of an input among the distinct inputs, and the group that place falls in
PlaceOf(p) == CHOOSE j \in 1..Len(uniquePaths) : uniquePaths[j] = p
GroupOf(j) == (j - 1) \div Concurrency

\* C1: when encode (with a concurrency of at least 1) has returned, its result
\* Map holds exactly one entry per distinct input string, and in every entry
\* exactly one of data and error is non-null.
C1_OneEntryPerDistinctInput ==
    (IsEncode /\ Fulfilled /\ Concurrency >= 1) =>
        /\ {results[k].key : k \in 1..Len(results)} = GivenSet
        /\ Len(results) = Cardinality(GivenSet)
        /\ \A k \in 1..Len(results) : IsNull(results[k].data) # IsNull(results[k].error)

C1_Witness ==
    /\ IsEncode /\ Fulfilled
    /\ Len(GivenInputs) = 3
    /\ Len(results) = 2
    /\ \E k \in 1..Len(results) : ~IsNull(results[k].data) /\ IsNull(results[k].error)
    /\ \E k \in 1..Len(results) : IsNull(results[k].data) /\ ~IsNull(results[k].error)

\* C2: in a batch, the failure of one input never rejects encode and never
\* changes another input's entry: every entry is the one its input gets when
\* resolved alone, and once encode has returned every input has its entry.
C2_FailureIsolated ==
    IsEncode =>
        /\ promise.state # "rejected"
        /\ \A k \in 1..Len(results) : results[k] = StoredAlone(results[k].key)
        /\ (Fulfilled /\ Concurrency >= 1) => \A p \in GivenSet : MapHas(results, p)

C2_Witness ==
    /\ IsEncode /\ Fulfilled
    /\ Concurrency = 2
    /\ Len(uniquePaths) = 3
    /\ Len(results) = 3
    /\ \E a \in 1..2 : /\ ~IsNull(MapGet(results, uniquePaths[a]).error)
                       /\ ~IsNull(MapGet(results, uniquePaths[3 - a]).data)
    /\ ~IsNull(MapGet(results, uniquePaths[3]).data)

\* C3: encode never rejects because one of its inputs failed: the error a
\* resolution ends with is stored in that input's entry, with null data.
\* encodeSingle on the same input and options rejects with that same error,
\* and when it resolves, its value is the data encode stores for the input.
C3_CapturedInBatchRaisedAlone ==
    /\ IsEncode =>
        /\ promise.state # "rejected"
        /\ \A k \in 1..Len(tasks) :
               (IsSettled(tasks[k]) /\ tasks[k].outcome.threw) =>
                   /\ MapHas(results, tasks[k].path)
                   /\ MapGet(results, tasks[k].path).error = tasks[k].outcome.value
                   /\ IsNull(MapGet(results, tasks[k].path).data)
    /\ (call.fn = "encodeSingle" /\ phase = "done") =>
           LET stored == StoredAlone(call.paths.v)
           IN  IF IsNull(stored.error)
               THEN promise = [state |-> "fulfilled", value |-> stored.data]
               ELSE promise = [state |-> "rejected", value |-> stored.error]

C3_Witness ==
    /\ IsEncode /\ Fulfilled
    /\ Len(results) = 2
    /\ MapHas(results, "http://h/slow")
    /\ MapGet(results, "http://h/slow").error = AbortError
    /\ \E k \in 1..2 : results[k].key # "http://h/slow" /\ ~IsNull(results[k].error)

\* C4: during encode with a concurrency c of at least 1, at most c resolutions
\* are in flight; the group being awaited is the next c distinct inputs (fewer
\* at the end), the groups follow one another in order, and no input of a
\* later group is started before every input of the earlier groups has its
\* entry.
C4_GroupsOfAtMostConcurrency ==
    (IsEncode /\ Concurrency >= 1) =>
        /\ Cardinality({k \in 1..Len(tasks) : ~IsSettled(tasks[k])}) <= Concurrency
        /\ Len(tasks) <= Concurrency
        /\ i % Concurrency = 0
        /\ phase = "awaiting" =>
               [k \in 1..Len(tasks) |-> tasks[k].path]
                   = SubSeq(uniquePaths, i + 1, Min(i + Concurrency, Len(uniquePaths)))
        /\ \A j, l \in 1..Len(uniquePaths) :
               LET Started(n) == \/ MapHas(results, uniquePaths[n])
                                 \/ \E k \in 1..Len(tasks) : tasks[k].path = uniquePaths[n]
                                 \/ Issued(io, "encodeSingle", uniquePaths[n]) > 0
               IN  (GroupOf(j) < GroupOf(l) /\ Started(l)) => MapHas(results, uniquePaths[j])

C4_Witness ==
    /\ IsEncode /\ Concurrency = 2
    /\ Len(uniquePaths) = 3
    /\ phase = "awaiting"
    /\ i = 2
    /\ Len(tasks) = 1
    /\ ~IsSettled(tasks[1])
    /\ Len(results) = 2

\* C5: encode called with a zero or negative concurrency and at least one
\* input settles its promise (by rejecting, or by running as with concurrency 1).
C5_NonPositiveConcurrencySettles ==
    <>((IsEncode /\ Concurrency < 1 /\ Len(GivenInputs) > 0) => promise.state # "pending")

\* C6 as claimed: the keys of the Map encode returns are in the order in which
\* the inputs first occur in the input sequence.
C6_FirstOccurrenceOrder ==
    (IsEncode /\ Fulfilled /\ Concurrency >= 1) => MapKeys(results) = Unique(GivenInputs)

\* C6: the keys of encode's result Map are in the order of the groups: every
\* input of an earlier group comes before every input of a later one (within
\* a group the entries are in the order in which the inputs settled), so with
\* a concurrency of 1 the keys are in first-occurrence order.
C6_KeysInGroupOrder ==
    (IsEncode /\ Concurrency >= 1) =>
        /\ \A a, b \in 1..Len(results) :
               a < b => GroupOf(PlaceOf(results[a].key)) <= GroupOf(PlaceOf(results[b].key))
        /\ Concurrency = 1 => MapKeys(results) = SubSeq(Unique(GivenInputs), 1, Len(results))

C6_Witness ==
    /\ IsEncode /\ Fulfilled
    /\ Concurrency = 2
    /\ Len(results) = 3
    /\ results[1].key = uniquePaths[2]
    /\ results[2].key = uniquePaths[1]
    /\ results[3].key = uniquePaths[3]

\* C7: encode deduplicates by exact string equality only: an input given
\* several times is resolved once and has one entry, two different strings
\* naming the same file are resolved separately, and every key is an input
\* string exactly as supplied.
C7_ExactStringDedup ==
    IsEncode =>
        /\ \A p \in GivenSet : Issued(io, "encodeSingle", p) <= 1
        /\ \A k \in 1..Len(results) : results[k].key \in GivenSet
        /\ (Fulfilled /\ Concurrency >= 1) =>
               /\ Len(results) = Cardinality(GivenSet)
               /\ \A p \in GivenSet : Issued(io, "encodeSingle", p) = 1 /\ MapHas(results, p)

C7_Witness ==
    /\ IsEncode /\ Fulfilled
    /\ GivenInputs = <<"a.png", "./a.png", "a.png">>
    /\ MapKeys(results) = <<"a.png", "./a.png">>
    /\ Issued(io, "readFileBuffer", "a.png") = 1
    /\ Issued(io, "readFileBuffer", "./a.png") = 1
    /\ results[1].data = results[2].data

\* C8: encode given a single string p returns what encode([p]) returns: a Map
\* of one entry, keyed by p, holding what p resolves to.
C8_SingleStringAsOneElementArray ==
    (IsEncode /\ Fulfilled /\ Concurrency >= 1 /\ Len(GivenInputs) = 1) =>
        results = <<StoredAlone(GivenInputs[1])>>

C8_Witness ==
    /\ IsEncode /\ Fulfilled
    /\ call.paths.t = "string"
    /\ Len(results) = 1
    /\ results[1].key = call.paths.v
    /\ ~IsNull(results[1].data)

\* the rule of the size gate, and the outcomes of encodeSingle it is read from
GatePasses(size, limit, force) == size <= limit \/ force
SizeFailure(size) ==
    promise = [state |-> "rejected",
               value |-> SizeLimitError(size, OptSizeLimit(call.options))]
AnySizeFailure ==
    /\ promise.state = "rejected"
    /\ StartsWith(promise.value.message, "Size limit exceeded")
FileNamed(p) == Cwd \o "/" \o p

\* C9: the size gate passes iff size <= limit or force is set. validateSize
\* follows the rule, and so does encodeSingle at each of its gates: on the stat
\* size of a local file, on the content-length a remote probe declares, and on
\* the length of the body actually downloaded. With force set, encodeSingle
\* never fails with a size-limit error.
C9_SizeGate ==
    /\ \A size \in 0..(MaxSize + 1), limit \in 0..MaxLimit, force \in BOOLEAN :
           validateSize(size, limit, force).threw <=> ~GatePasses(size, limit, force)
    /\ (call.fn = "encodeSingle" /\ phase = "done") =>
           LET p == call.paths.v
               limit == OptSizeLimit(call.options)
               force == OptForce(call.options)
               timeout == OptTimeout(call.options)
           IN  /\ force => ~AnySizeFailure
               /\ FileNamed(p) \in DOMAIN world.files =>
                      LET size == world.files[FileNamed(p)].size
                      IN  /\ SizeFailure(size) <=> ~GatePasses(size, limit, force)
                          /\ AnySizeFailure => SizeFailure(size)
               /\ (p \in DOMAIN world.http /\ ~fetchMetadata(world, p, timeout).threw
                       /\ isImage(fetchMetadata(world, p, timeout).value.contentType)) =>
                      LET declared == fetchMetadata(world, p, timeout).value.contentLength
                          actual == Len(world.http[p].get.body) + world.http[p].get.bodyZeros
                      IN  IF ~declared.nan /\ ~GatePasses(declared.n, limit, force)
                          THEN SizeFailure(declared.n)
                          ELSE IF fetchBufferHeaders(world, p, timeout).threw
                                  \/ fetchBufferBody(world, p, timeout).threw
                          THEN ~AnySizeFailure
                          ELSE /\ SizeFailure(actual) <=> ~GatePasses(actual, limit, force)
                               /\ AnySizeFailure => SizeFailure(actual)

C9_Witness ==
    /\ call.fn = "encodeSingle" /\ phase = "done"
    /\ call.paths.v = "http://h/i.png"
    /\ call.options = [sizeLimit |-> 2]
    /\ world.http["http://h/i.png"].head.clen = Str("2")
    /\ Len(world.http["http://h/i.png"].get.body) = 3
    /\ Issued(io, "arrayBuffer", "http://h/i.png") = 1
    /\ SizeFailure(3)

\* C10: for a URL whose probe answers with a content-type that does not begin
\* with image/ (whatever the case of its letters; missing and empty count as
\* not an image), the full fetch is never issued and the resolution fails
\* with the not-an-image error naming the declared type and the URL, also
\* when the declared content-length exceeds sizeLimit.
C10_TypeGateBeforeFetch ==
    \A u \in DOMAIN world.http :
        LET head == world.http[u].head
            declared == IF IsNull(head.ctype) THEN "" ELSE head.ctype.v
            expected == Err("Error", "Not an image. Content-Type: " \o declared
                                         \o ", URL: " \o u)
        IN  (/\ head.delay < OptTimeout(call.options)
             /\ head.status \in 200..299
             /\ ~(Len(declared) >= 6 /\ ToLowerCase(SubSeq(declared, 1, 6)) = "image/")) =>
                /\ Issued(io, "fetch", u) = 0
                /\ Issued(io, "arrayBuffer", u) = 0
                /\ \A k \in 1..Len(tasks) :
                       (tasks[k].path = u /\ IsSettled(tasks[k])) =>
                           tasks[k].outcome = Throw(expected)
                /\ MapHas(results, u) => MapGet(results, u) = Entry(u, Null, expected)
                /\ (call.fn = "encodeSingle" /\ call.paths.v = u /\ phase = "done") =>
                       promise = [state |-> "rejected", value |-> expected]

C10_Witness ==
    /\ call.fn = "encodeSingle" /\ phase = "done"
    /\ call.paths.v = "http://h/i.png"
    /\ call.options = [sizeLimit |-> 2]
    /\ world.http["http://h/i.png"].head.ctype = Str("text/html")
    /\ world.http["http://h/i.png"].head.clen = Str("3")
    /\ Issued(io, "fetchMetadata", "http://h/i.png") = 1
    /\ Issued(io, "fetch", "http://h/i.png") = 0
    /\ promise = [state |-> "rejected",
                  value |-> Err("Error",
                      "Not an image. Content-Type: text/html, URL: http://h/i.png")]

\* what the probe of a URL answers, read from the world
ProbeAnswers(u) ==
    /\ world.http[u].head.delay < OptTimeout(call.options)
    /\ world.http[u].head.status \in 200..299
DeclaredType(u) == IF IsNull(world.http[u].head.ctype) THEN "" ELSE world.http[u].head.ctype.v
DeclaresImage(u) ==
    Len(DeclaredType(u)) >= 6 /\ ToLowerCase(SubSeq(DeclaredType(u), 1, 6)) = "image/"
DeclaredLength(u) ==
    IF IsNull(world.http[u].head.clen) THEN [nan |-> TRUE, n |-> 0]
    ELSE ParseInt(world.http[u].head.clen.v)
DeclaredKnown(u) == ~DeclaredLength(u).nan /\ DeclaredLength(u).n > 0

\* the resolution of input p, wherever it has settled, has failed with error e
FailedWith(p, e) ==
    /\ \A k \in 1..Len(tasks) :
           (tasks[k].path = p /\ IsSettled(tasks[k])) => tasks[k].outcome = Throw(e)
    /\ MapHas(results, p) => MapGet(results, p) = Entry(p, Null, e)
    /\ (call.fn = "encodeSingle" /\ call.paths.v = p /\ phase = "done") =>
           promise = [state |-> "rejected", value |-> e]

NeverFetched(u) == Issued(io, "fetch", u) = 0 /\ Issued(io, "arrayBuffer", u) = 0

\* C11: for a URL whose probe answers with an image type and a content-length
\* above 0 that exceeds sizeLimit, without force the resolution fails with the
\* size-limit error carrying the declared length and the limit, and the full
\* fetch is never issued.
C11_DeclaredSizeGateBeforeFetch ==
    \A u \in DOMAIN world.http :
        (/\ ProbeAnswers(u) /\ DeclaresImage(u) /\ DeclaredKnown(u)
         /\ DeclaredLength(u).n > OptSizeLimit(call.options)
         /\ ~OptForce(call.options)) =>
            /\ NeverFetched(u)
            /\ FailedWith(u, SizeLimitError(DeclaredLength(u).n, OptSizeLimit(call.options)))

C11_Witness ==
    /\ call.fn = "encodeSingle" /\ phase = "done"
    /\ call.paths.v = "http://h/i.png"
    /\ call.options = [sizeLimit |-> 2]
    /\ world.http["http://h/i.png"].head.ctype = Str("image/png")
    /\ world.http["http://h/i.png"].head.clen = Str("3")
    /\ Len(world.http["http://h/i.png"].get.body) = 1
    /\ Issued(io, "fetchMetadata", "http://h/i.png") = 1
    /\ Issued(io, "fetch", "http://h/i.png") = 0
    /\ promise = [state |-> "rejected", value |-> SizeLimitError(3, 2)]

\* what the full fetch of a URL answers, read from the world
FetchAnswers(u) ==
    /\ world.http[u].get.delay + world.http[u].get.bodyDelay < OptTimeout(call.options)
    /\ world.http[u].get.status \in 200..299
ActualLength(u) == Len(world.http[u].get.body) + world.http[u].get.bodyZeros

\* input p has been resolved to its end: its outcome is in an entry or in the promise
Resolved(p) ==
    \/ MapHas(results, p)
    \/ call.fn = "encodeSingle" /\ call.paths.v = p /\ phase = "done"

\* the data input p was resolved to, or Null
DataOf(p) ==
    IF MapHas(results, p) THEN MapGet(results, p).data
    ELSE IF call.fn = "encodeSingle" /\ call.paths.v = p /\ phase = "done"
            /\ promise.state = "fulfilled"
    THEN promise.value
    ELSE Null

\* C12: when the probe of an image URL declares no content-length, or one that
\* is unparseable or not above 0, the fetch is issued; and whenever the body
\* downloaded is longer than sizeLimit and force is not set, the resolution
\* fails after the fetch with the size-limit error carrying the actual length.
\* So without force no data URI is produced from a remote body longer than
\* sizeLimit, also when the declared length was absent or understated.
C12_PostDownloadSizeGate ==
    \A u \in DOMAIN world.http :
        LET limit == OptSizeLimit(call.options)
            force == OptForce(call.options)
        IN  /\ (ProbeAnswers(u) /\ DeclaresImage(u) /\ ~DeclaredKnown(u) /\ Resolved(u)) =>
                   Issued(io, "fetch", u) = 1
            /\ (/\ ProbeAnswers(u) /\ DeclaresImage(u) /\ FetchAnswers(u)
                /\ (DeclaredKnown(u) => DeclaredLength(u).n <= limit)
                /\ ActualLength(u) > limit /\ ~force) =>
                   /\ FailedWith(u, SizeLimitError(ActualLength(u), limit))
                   /\ Resolved(u) => Issued(io, "arrayBuffer", u) = 1
            /\ (~force /\ ~IsNull(DataOf(u))) =>
                   /\ ActualLength(u) <= limit
                   /\ \E m \in {"image/png", "text/html", "application/octet-stream"} :
                          DataOf(u) = Str("data:" \o m \o ";base64,"
                                              \o ToBase64(BufferOf(world.http[u].get.body,
                                                                  world.http[u].get.bodyZeros)))

C12_Witness ==
    /\ call.fn = "encodeSingle" /\ phase = "done"
    /\ call.paths.v = "http://h/i.png"
    /\ call.options = [sizeLimit |-> 2]
    /\ world.http["http://h/i.png"].head.ctype = Str("image/png")
    /\ world.http["http://h/i.png"].head.clen = Null
    /\ ActualLength("http://h/i.png") = 3
    /\ Issued(io, "fetch", "http://h/i.png") = 1
    /\ Issued(io, "arrayBuffer", "http://h/i.png") = 1
    /\ promise = [state |-> "rejected", value |-> SizeLimitError(3, 2)]

\* the error a response with a non-success status is reported with
StatusError(resp) ==
    Err("Error", "HTTP " \o ToString(resp.status) \o ": " \o StatusText(resp.status))

\* C13: a non-success status on the probe makes the resolution fail with an
\* error carrying that status code, and the fetch is never issued; a
\* non-success status on the fetch, after a probe that passed, makes it fail
\* with an error carrying the fetch's status code; no data URI is produced.
C13_StatusErrors ==
    \A u \in DOMAIN world.http :
        LET head == world.http[u].head
            get == world.http[u].get
            timeout == OptTimeout(call.options)
        IN  /\ (head.delay < timeout /\ head.status \notin 200..299) =>
                   /\ NeverFetched(u)
                   /\ FailedWith(u, StatusError(head))
                   /\ IsNull(DataOf(u))
            /\ (/\ ProbeAnswers(u) /\ DeclaresImage(u)
                /\ (DeclaredKnown(u) =>
                        DeclaredLength(u).n <= OptSizeLimit(call.options)
                            \/ OptForce(call.options))
                /\ get.delay < timeout /\ get.status \notin 200..299) =>
                   /\ FailedWith(u, StatusError(get))
                   /\ Issued(io, "arrayBuffer", u) = 0
                   /\ Resolved(u) => Issued(io, "fetch", u) = 1
                   /\ IsNull(DataOf(u))

C13_Witness ==
    /\ call.fn = "encodeSingle" /\ phase = "done"
    /\ call.paths.v = "http://h/i.png"
    /\ world.http["http://h/i.png"].head.status = 200
    /\ world.http["http://h/i.png"].get.status = 500
    /\ Issued(io, "fetch", "http://h/i.png") = 1
    /\ promise = [state |-> "rejected",
                  value |-> Err("Error", "HTTP 500: Internal Server Error")]

\* C14: a probe, or a fetch (the read of its body included), that has not
\* completed when `timeout` ms have passed since it was issued is aborted and
\* the resolution fails with the abort error, whatever status the late
\* response carries; the abort error is not an HTTP-status error.
C14_TimeoutAborts ==
    /\ \A status \in Statuses :
           /\ AbortError # Err("Error", "HTTP " \o ToString(status) \o ": "
                                           \o StatusText(status))
           /\ AbortError.name # "Error"
           /\ ~StartsWith(AbortError.message, "HTTP ")
    /\ \A u \in DOMAIN world.http :
           LET head == world.http[u].head
               get == world.http[u].get
               timeout == OptTimeout(call.options)
           IN  /\ head.delay > timeout =>
                      /\ NeverFetched(u)
                      /\ FailedWith(u, AbortError)
                      /\ IsNull(DataOf(u))
               /\ (/\ ProbeAnswers(u) /\ DeclaresImage(u)
                   /\ (DeclaredKnown(u) =>
                           DeclaredLength(u).n <= OptSizeLimit(call.options)
                               \/ OptForce(call.options))
                   /\ \/ get.delay > timeout
                      \/ get.status \in 200..299 /\ get.delay + get.bodyDelay > timeout) =>
                      /\ FailedWith(u, AbortError)
                      /\ IsNull(DataOf(u))

C14_Witness ==
    /\ call.fn = "encodeSingle" /\ phase = "done"
    /\ call.paths.v = "http://h/i.png"
    /\ call.options = [timeout |-> 2]
    /\ world.http["http://h/i.png"].head.delay = 0
    /\ world.http["http://h/i.png"].get.delay = 3
    /\ world.http["http://h/i.png"].get.status = 404
    /\ Issued(io, "fetch", "http://h/i.png") = 1
    /\ promise = [state |-> "rejected", value |-> AbortError]

\* C15: the probe and the fetch of a remote input each have the full
\* `timeout` from the moment they are issued: when the probe completes within
\* its deadline and the fetch (body included) within its own, the resolution
\* succeeds, however long the two took together.
C15_IndependentDeadlines ==
    \A u \in DOMAIN world.http :
        (/\ ProbeAnswers(u) /\ DeclaresImage(u) /\ FetchAnswers(u)
         /\ (DeclaredKnown(u) =>
                 DeclaredLength(u).n <= OptSizeLimit(call.options) \/ OptForce(call.options))
         /\ ActualLength(u) <= OptSizeLimit(call.options) \/ OptForce(call.options)
         /\ Resolved(u)) =>
            /\ ~IsNull(DataOf(u))
            /\ Issued(io, "fetchMetadata", u) = 1
            /\ Issued(io, "fetch", u) = 1

C15_Witness ==
    /\ call.fn = "encodeSingle" /\ phase = "done"
    /\ call.paths.v = "http://h/i.png"
    /\ call.options = [timeout |-> 2]
    /\ world.http["http://h/i.png"].head.delay = 1
    /\ world.http["http://h/i.png"].get.delay = 1
    /\ world.http["http://h/i.png"].get.bodyDelay = 0
    /\ promise.state = "fulfilled"

\* C16: in a group of encode, the step in which one request is aborted by its
\* timeout settles that input only: every other resolution of the group is
\* left as it was, no other entry is written or changed, and every entry,
\* the siblings' included, is the one its input gets when resolved alone.
C16_AbortCancelsOnlyItsRequest ==
    [][(IsEncode /\ phase = "awaiting" /\ Len(tasks') = Len(tasks)) =>
           \A k \in 1..Len(tasks) :
               (/\ ~IsSettled(tasks[k])
                /\ IsSettled(tasks'[k])
                /\ tasks'[k].outcome = Throw(AbortError)) =>
                   /\ \A j \in 1..Len(tasks) : j # k => tasks'[j] = tasks[j]
                   /\ \A j \in 1..Len(results') :
                          /\ results'[j].key # tasks[k].path =>
                                 j <= Len(results) /\ results'[j] = results[j]
                          /\ results'[j] = StoredAlone(results'[j].key)]_vars

C16_Witness ==
    /\ IsEncode /\ Fulfilled
    /\ Concurrency >= 2
    /\ Len(results) = 2
    /\ results[1] = Entry("http://h/slow", Null, AbortError)
    /\ results[2].key = "http://h/i.png"
    /\ ~IsNull(results[2].data)

\* an input that starts with http:// or https://, in letters of either case
RemoteInput(p) ==
    \/ Len(p) >= 7 /\ ToLowerCase(SubSeq(p, 1, 7)) = "http://"
    \/ Len(p) >= 8 /\ ToLowerCase(SubSeq(p, 1, 8)) = "https://"

\* the normalized form of a path has a segment that is `..`
HasParentSegment(p) ==
    \E k \in 1..Len(Split(Normalize(p), "/")) : Split(Normalize(p), "/")[k] = ".."

TraversalError(p) == Err("Error", "Invalid path: path traversal detected in \"" \o p \o "\"")

LocalOps == {"fileExists", "getFileSize", "readFileBuffer"}
RemoteOps == {"fetchMetadata", "fetch", "arrayBuffer"}

\* the local inputs of the model whose normalized form has a `..` segment
TraversalInputs == {p \in PathInputs \cup Inputs : ~RemoteInput(p) /\ HasParentSegment(p)}
TraversalInputsThrow == \A p \in TraversalInputs : validatePath(p) = Throw(TraversalError(p))

\* C17: for every local input whose normalized form has a `..` segment,
\* whatever precedes it, validatePath throws the path-traversal error, and the
\* resolution of the input fails with that error before any file operation.
C17_TraversalRejected ==
    /\ TraversalInputsThrow
    /\ \A p \in GivenSet \cap TraversalInputs :
           /\ FailedWith(p, TraversalError(p))
           /\ \A op \in LocalOps \cup RemoteOps : Issued(io, op, p) = 0

C17_Witness ==
    /\ call.fn = "encodeSingle" /\ phase = "done"
    /\ call.paths.v = "a/../../x"
    /\ "a/../../x" \in TraversalInputs
    /\ promise = [state |-> "rejected", value |-> TraversalError("a/../../x")]

\* the error input p was resolved to, or Null
ErrorOf(p) ==
    IF MapHas(results, p) THEN MapGet(results, p).error
    ELSE IF call.fn = "encodeSingle" /\ call.paths.v = p /\ phase = "done"
            /\ promise.state = "rejected"
    THEN promise.value
    ELSE Null

\* an error of path validation: the traversal error or the escape error
PathSecurityError(e) == ~IsNull(e) /\ StartsWith(e.message, "Invalid path:")

\* the relative local inputs of the model, by where they lead: outside the
\* working directory, or inside it by a normalized form without `..` segment
RelativeInputs ==
    {p \in PathInputs \cup Inputs : ~RemoteInput(p) /\ ~StartsWith(p, "/") /\ ~IsDrivePath(p)}
EscapingInputs ==
    {p \in RelativeInputs : Resolve(p) # Cwd /\ ~StartsWith(Resolve(p), Cwd \o "/")}
ContainedInputs ==
    {p \in RelativeInputs :
         /\ ~HasParentSegment(p)
         /\ Resolve(p) = Cwd \/ StartsWith(Resolve(p), Cwd \o "/")}
\* C18: a relative path that leads outside the working directory is rejected
\* by path validation, and a relative path that stays inside it, './'
\* prefixes or not, passes path validation.
C18_WorkingDirectoryContainment ==
    /\ \A p \in GivenSet \cap EscapingInputs :
           Resolved(p) => validatePath(p).threw /\ PathSecurityError(ErrorOf(p))
    /\ \A p \in GivenSet \cap ContainedInputs :
           Resolved(p) => ~validatePath(p).threw /\ ~PathSecurityError(ErrorOf(p))

\* the absolute inputs of the model whose normalized form has no `..` segment
AbsoluteInputs == {p \in PathInputs \cup Inputs : StartsWith(p, "/") /\ ~HasParentSegment(p)}

\* C19: an absolute path whose normalized form has no `..` segment passes
\* path validation wherever it points: its resolution never fails with a
\* path-security error, only at a later gate (not found, size, media type).
C19_AbsolutePathsPass ==
    \A p \in GivenSet \cap AbsoluteInputs :
        Resolved(p) =>
            /\ ~validatePath(p).threw
            /\ ~PathSecurityError(ErrorOf(p))
            /\ Issued(io, "fileExists", p) = 1

\* isUrl and getPathType take for remote exactly the inputs of the model that
\* start with http:// or https:// in letters of either case
ClassifiedByPrefix ==
    \A p \in PathInputs \cup Inputs :
        /\ isUrl(p) = RemoteInput(p)
        /\ (getPathType(p) = "url") = RemoteInput(p)
        /\ (getPathType(p) = "file") = ~RemoteInput(p)

\* C20: an input is remote iff it starts with http:// or https://, compared
\* without regard to case, and local otherwise; the resolution of a remote
\* input begins with the probe and issues no file operation, the resolution
\* of a local input begins with path validation and the existence check and
\* issues no request.
C20_ClassificationAndDispatch ==
    /\ ClassifiedByPrefix
    /\ \A p \in GivenSet :
           IF RemoteInput(p)
           THEN /\ \A op \in LocalOps : Issued(io, op, p) = 0
                /\ Issued(io, "encodeSingle", p) = Issued(io, "fetchMetadata", p)
                /\ ~PathSecurityError(ErrorOf(p))
           ELSE /\ \A op \in RemoteOps : Issued(io, op, p) = 0
                /\ Issued(io, "encodeSingle", p) = 1 =>
                       IF validatePath(p).threw
                       THEN \A op \in LocalOps : Issued(io, op, p) = 0
                       ELSE Issued(io, "fileExists", p) = 1

C20_Witness ==
    /\ call.fn = "encodeSingle" /\ phase = "done"
    /\ call.paths.v = "HTTPS://h/page"
    /\ Issued(io, "fetchMetadata", "HTTPS://h/page") = 1
    /\ Issued(io, "fileExists", "HTTPS://h/page") = 0
    /\ promise.state = "rejected"
    /\ StartsWith(promise.value.message, "Not an image")

\* the errors of the gates of a local resolution, and what the gates read
NotFoundError(p) == Err("Error", "File not found: " \o p)
UnknownTypeError(p) == Err("Error", "Unable to determine MIME type for: " \o p)
FilePresent(p) == \E f \in DOMAIN world.files : f = Resolve(p)
StatSize(p) == world.files[Resolve(p)].size
OverLimit(p) == ~OptForce(call.options) /\ StatSize(p) > OptSizeLimit(call.options)

\* C21: a local resolution applies its gates in the order path validation,
\* existence, size, media type, read, and fails with the error of the first
\* gate that fails, issuing no operation of a later gate: a rejected path is
\* never looked up, a missing file gives not-found with the original path
\* whatever its extension, and a present file over the limit gives the
\* size-limit error whatever its extension.
C21_LocalGateOrder ==
    \A p \in GivenSet :
        (~RemoteInput(p) /\ Resolved(p)) =>
            IF validatePath(p).threw
            THEN /\ PathSecurityError(ErrorOf(p))
                 /\ \A op \in LocalOps : Issued(io, op, p) = 0
            ELSE IF ~FilePresent(p)
            THEN /\ ErrorOf(p) = NotFoundError(p)
                 /\ Issued(io, "fileExists", p) = 1
                 /\ Issued(io, "getFileSize", p) = 0
                 /\ Issued(io, "readFileBuffer", p) = 0
            ELSE IF OverLimit(p)
            THEN /\ ErrorOf(p) = SizeLimitError(StatSize(p), OptSizeLimit(call.options))
                 /\ Issued(io, "getFileSize", p) = 1
                 /\ Issued(io, "readFileBuffer", p) = 0
            ELSE IF IsNull(getMimeType(p))
            THEN /\ ErrorOf(p) = UnknownTypeError(p)
                 /\ Issued(io, "readFileBuffer", p) = 0
            ELSE /\ IsNull(ErrorOf(p))
                 /\ ~IsNull(DataOf(p))
                 /\ Issued(io, "readFileBuffer", p) = 1

C21_Witness ==
    /\ call.fn = "encodeSingle" /\ phase = "done"
    /\ call.paths.v = "b.xyz"
    /\ call.options = [sizeLimit |-> 2]
    /\ FilePresent("b.xyz") /\ StatSize("b.xyz") = 3
    /\ IsNull(getMimeType("b.xyz"))
    /\ promise = [state |-> "rejected", value |-> SizeLimitError(3, 2)]

\* the limit in force for the call, and a resolution that failed at a size gate
LimitInForce == IF "sizeLimit" \in DOMAIN call.options THEN call.options.sizeLimit ELSE 131072
SizeFailed(p) == ~IsNull(ErrorOf(p)) /\ StartsWith(ErrorOf(p).message, "Size limit exceeded")

GivenBuffer == call.buffer.t = "buffer"
GivenMediaType == call.mimeType.t = "string" /\ call.mimeType.v # ""
GivenBytes == call.buffer.bytes \o [k \in 1..call.buffer.zeros |-> 0]
Called == Len(results) >= 1
Prefix == "data:" \o call.mimeType.v \o ";base64,"
Payload == SubSeq(results[1].value.v, Len(Prefix) + 1, Len(results[1].value.v))

\* RFC 4648 base64, bit by bit: the bits of the bytes, most significant
\* first, filled with zero bits to a multiple of 6, taken six at a time as an
\* index into the standard alphabet, then '=' up to a multiple of 4 characters
StandardAlphabet == "ABCDEFGHIJKLMNOPQRSTUVWXYZabcdefghijklmnopqrstuvwxyz0123456789+/"
Pow2(n) == CASE n = 0 -> 1 [] n = 1 -> 2 [] n = 2 -> 4 [] n = 3 -> 8
             [] n = 4 -> 16 [] n = 5 -> 32 [] n = 6 -> 64 [] n = 7 -> 128
BitAt(b, k) == IF k >= 8 * Len(b) THEN 0 ELSE (b[k \div 8 + 1] \div Pow2(7 - (k % 8))) % 2
SextetAt(b, q) ==
    32 * BitAt(b, 6 * q) + 16 * BitAt(b, 6 * q + 1) + 8 * BitAt(b, 6 * q + 2)
        + 4 * BitAt(b, 6 * q + 3) + 2 * BitAt(b, 6 * q + 4) + BitAt(b, 6 * q + 5)
SextetCount(b) == (8 * Len(b) + 5) \div 6
IsStandardBase64(s, b) ==
    /\ Len(s) = 4 * ((Len(b) + 2) \div 3)
    /\ \A q \in 0..(Len(s) - 1) :
           CharAt(s, q + 1) = IF q < SextetCount(b)
                              THEN CharAt(StandardAlphabet, SextetAt(b, q) + 1)
                              ELSE "="

\* C23: for every Buffer and non-empty string media type m, toDataUri
\* returns exactly 'data:' + m + ';base64,' + the RFC 4648 base64 of the
\* bytes in the standard alphabet with '=' padding and no line break; the
\* bytes of "test" with text/plain give 'data:text/plain;base64,dGVzdA=='.
C23_EncoderOutput ==
    (Called /\ GivenBuffer /\ GivenMediaType) =>
        /\ ~results[1].threw
        /\ results[1].value.t = "string"
        /\ StartsWith(results[1].value.v, Prefix)
        /\ IsStandardBase64(Payload, GivenBytes)
        /\ (call.buffer = Buffer(TestBytes) /\ call.mimeType = Str("text/plain")) =>
               results[1].value = Str("data:text/plain;base64,dGVzdA==")
        /\ (call.buffer = Buffer(PngHeader) /\ call.mimeType = Str("image/png")) =>
               results[1].value = Str("data:image/png;base64,iVBORw==")

C23_Witness ==
    /\ Called
    /\ call.buffer = Buffer(<<251, 255>>) /\ call.mimeType = Str("x")
    /\ results[1] = Return(Str("data:x;base64,+/8="))

\* the arguments toDataUri is specified to refuse
NotAByteBuffer == call.buffer.t \in {"string", "null", "undefined", "number", "array", "uint8array"}
NotAMediaType == call.mimeType \in {Str(""), Null, Undefined} \/ call.mimeType.t # "string"

\* C24: toDataUri throws, and returns no string, whenever its first argument
\* is not a Buffer and whenever the media type is empty, null, undefined or
\* not a string; in every other case, whatever the length of the buffer and
\* the text of the media type, it returns a string.
C24_EncoderArgumentErrors ==
    Called =>
        /\ results[1].threw <=> (NotAByteBuffer \/ NotAMediaType)
        /\ results[1].threw =>
               /\ results[1].value.t = "error" /\ results[1].value.name = "TypeError"
               /\ NotAByteBuffer =>
                      results[1].value.message = "Expected buffer to be a Buffer instance"
        /\ ~results[1].threw => results[1].value.t = "string"

C24_Witness ==
    /\ Called
    /\ call.buffer = Buffer(TestBytes) /\ call.mimeType = Undefined
    /\ results[1] = Throw(Err("TypeError", "Expected mimeType to be a non-empty string"))

\* base64 decoding, bit by bit: the characters before the padding give six
\* bits each, and every full eight bits give a byte
PayloadChars(s) == Cardinality({k \in 1..Len(s) : CharAt(s, k) # "="})
InAlphabet(c) == \E q \in 0..63 : CharAt(StandardAlphabet, q + 1) = c
SextetOf(c) == CHOOSE q \in 0..63 : CharAt(StandardAlphabet, q + 1) = c
DecodedBit(s, k) == (SextetOf(CharAt(s, k \div 6 + 1)) \div Pow2(5 - (k % 6))) % 2
DecodedByte(s, j) ==
    128 * DecodedBit(s, 8 * j) + 64 * DecodedBit(s, 8 * j + 1) + 32 * DecodedBit(s, 8 * j + 2)
        + 16 * DecodedBit(s, 8 * j + 3) + 8 * DecodedBit(s, 8 * j + 4)
        + 4 * DecodedBit(s, 8 * j + 5) + 2 * DecodedBit(s, 8 * j + 6) + DecodedBit(s, 8 * j + 7)
Base64Decode(s) == [j \in 1..((6 * PayloadChars(s)) \div 8) |-> DecodedByte(s, j - 1)]

C25_WitnessEmpty ==
    /\ phase = "done"
    /\ call.buffer = Buffer(<<>>) /\ call.mimeType = Str("image/png")
    /\ results[1] = Return(Str("data:image/png;base64,"))
    /\ Base64Decode(Payload) = <<>>

\* the media type of a data URI: what stands between 'data:' and ';base64,'
RECURSIVE IndexOf(_, _, _)
IndexOf(s, sub, from) ==
    IF from + Len(sub) - 1 > Len(s) THEN 0
    ELSE IF SubSeq(s, from, from + Len(sub) - 1) = sub THEN from
    ELSE IndexOf(s, sub, from + 1)
MediaTypeOf(uri) == SubSeq(uri, 6, IndexOf(uri, ";base64,", 1) - 1)
IsImageType(m) == Len(m) >= 6 /\ ToLowerCase(SubSeq(m, 1, 6)) = "image/"

\* C26: every data URI that encodeSingle or an entry of encode gives for a
\* remote URL has a media type that begins with image/, whatever
\* content-types the probe and the fetch responses carry.
C26_OnlyImagesReturned ==
    \A p \in GivenSet :
        (RemoteInput(p) /\ ~IsNull(DataOf(p))) => IsImageType(MediaTypeOf(DataOf(p).v))

\* the content-type of the fetch response, and the bytes of its body
FetchedType(u) ==
    IF IsNull(world.http[u].get.ctype) \/ world.http[u].get.ctype = Str("")
    THEN "application/octet-stream"
    ELSE world.http[u].get.ctype.v
FetchedBody(u) == BufferOf(world.http[u].get.body, world.http[u].get.bodyZeros)

InFlight == <<Running>> \o parked
InputsOf(c) == Unique(IF c.paths.t = "array" THEN c.paths.items ELSE <<c.paths.v>>)
EntryAlone(p, o) ==
    LET alone == EncodedAlone(p, o, world)
    IN  IF alone.threw THEN Entry(p, Null, alone.value) ELSE Entry(p, alone.value, Null)
SameAsAlone(cs) ==
    IF cs.call.fn = "encodeSingle"
    THEN cs.promise = SettlePromise(EncodedAlone(cs.call.paths.v, cs.call.options, world))
    ELSE /\ cs.promise.state = "fulfilled"
         /\ Len(cs.results) = Len(InputsOf(cs.call))
         /\ {cs.results[k] : k \in 1..Len(cs.results)}
                = {EntryAlone(InputsOf(cs.call)[k], cs.call.options) :
                       k \in 1..Len(InputsOf(cs.call))}
Unsettled(cs) == {k \in 1..Len(cs.tasks) : ~IsSettled(cs.tasks[k])}

\* C28: of two calls that run interleaved with different options, each gives
\* exactly the result it gives when run alone, and each has at any time at
\* most as many resolutions in flight as its own concurrency allows, all of
\* them resolutions of its own inputs.
C28_NoCrossCallState ==
    \A n \in 1..Len(InFlight) :
        /\ InFlight[n].phase = "done" => SameAsAlone(InFlight[n])
        /\ Cardinality(Unsettled(InFlight[n])) <= OptConcurrency(InFlight[n].call.options)
        /\ \A k \in 1..Len(InFlight[n].tasks) :
               \E j \in 1..Len(InputsOf(InFlight[n].call)) :
                   InFlight[n].tasks[k].path = InputsOf(InFlight[n].call)[j]

C28_Witness ==
    /\ call = [fn |-> "encode", paths |-> Array(PairInputs),
               options |-> [sizeLimit |-> 2, concurrency |-> 1]]
    /\ phase = "done"
    /\ MapGet(results, "big.png") = Entry("big.png", Null, SizeLimitError(3, 2))
    /\ MapGet(results, "http://h/slow") = Entry("http://h/slow", Null, AbortError)
    /\ parked[1].call = [fn |-> "encode", paths |-> Array(PairInputs),
                         options |-> [force |-> TRUE, timeout |-> DEFAULT_TIMEOUT + 1]]
    /\ parked[1].phase = "done"
    /\ ~IsNull(MapGet(parked[1].results, "big.png").data)
    /\ ~IsNull(MapGet(parked[1].results, "http://h/slow").data)

\* the two calls in the middle of their work, each with a resolution in flight
C28_WitnessInterleaved ==
    /\ parked # <<>>
    /\ phase = "awaiting" /\ parked[1].phase = "awaiting"
    /\ Unsettled(Running) # {} /\ Unsettled(parked[1]) # {}
    /\ call.options # parked[1].call.options

\* a request of a URL that fails: it outlasts the timeout or its status is no 2xx
ProbeFails(u) ==
    \/ world.http[u].head.delay > OptTimeout(call.options)
    \/ world.http[u].head.status \notin 200..299
FetchFails(u) ==
    \/ world.http[u].get.delay + world.http[u].get.bodyDelay > OptTimeout(call.options)
    \/ world.http[u].get.status \notin 200..299

\* C29: within one call, for each distinct input the probe, the fetch with
\* the read of its body, the existence check, the stat and the read are each
\* issued at most once; a probe or a fetch that failed or timed out is
\* reported as the error of the input and nothing is issued for the input
\* after it.
C29_NoRetries ==
    \A p \in GivenSet :
        /\ \A op \in LocalOps \cup RemoteOps : Issued(io, op, p) <= 1
        /\ (RemoteInput(p) /\ Resolved(p) /\ ProbeFails(p)) =>
               /\ ~IsNull(ErrorOf(p))
               /\ Issued(io, "fetchMetadata", p) = 1
               /\ Issued(io, "fetch", p) = 0
        /\ (RemoteInput(p) /\ Resolved(p) /\ Issued(io, "fetch", p) = 1 /\ FetchFails(p)) =>
               /\ ~IsNull(ErrorOf(p))
               /\ Issued(io, "fetchMetadata", p) = 1

C29_Witness ==
    /\ call.fn = "encodeSingle" /\ phase = "done"
    /\ call.paths.v = "http://h/i.png"
    /\ call.options = [timeout |-> 1]
    /\ world.http["http://h/i.png"].head.status = 200
    /\ world.http["http://h/i.png"].head.delay = 0
    /\ world.http["http://h/i.png"].get.delay = 2
    /\ Issued(io, "fetchMetadata", "http://h/i.png") = 1
    /\ Issued(io, "fetch", "http://h/i.png") = 1
    /\ Issued(io, "arrayBuffer", "http://h/i.png") = 0
    /\ promise = [state |-> "rejected", value |-> AbortError]

\* the entries encode returned to encodeLegacy, and the errors among them
LegacyDone == "given" \in DOMAIN call /\ phase = "returned"
EntryKeys == {results[n].key : n \in 1..Len(results)}
EntryErrors == {results[n].error : n \in 1..Len(results)} \ {Null}

\* C30: encodeLegacy calls the callback with null and an object that has
\* exactly one key per entry of the Map encode returned, under which
\* err is the entry's error and data its data; an error of an input is never
\* the first argument of the callback; and encodeLegacy(paths, cb) calls
\* encode with the options {} and the callback cb.
C30_LegacyPureTranslation ==
    /\ (LegacyDone /\ promise.state = "fulfilled") =>
           /\ callbackCalls[1].err = Null
           /\ ObjKeys(callbackCalls[1].results) = EntryKeys
           /\ \A n \in 1..Len(results) :
                  /\ ObjGet(callbackCalls[1].results, results[n].key).err = results[n].error
                  /\ ObjGet(callbackCalls[1].results, results[n].key).data = results[n].data
    /\ \A n \in 1..Len(callbackCalls) : callbackCalls[n].err \notin EntryErrors
    /\ ("given" \in DOMAIN call /\ IsA(call.given.options, "function")) =>
           /\ DOMAIN call.options = {}
           /\ call.callback = call.given.options


(***************************************************************************)
(* The result map of encode over time.                                     *)
(***************************************************************************)
\* Task k of the group settles in this step: at the start of its group, or
\* when the operation it awaited completes.
SettlesNow(k) ==
    /\ IsSettled(tasks'[k])
    /\ phase = "loop" \/ ~IsSettled(tasks[k])

SlotOf(task) ==
    IF task.outcome.threw
    THEN [key |-> task.path, data |-> Null, error |-> task.outcome.value]
    ELSE [key |-> task.path, data |-> task.outcome.value, error |-> Null]

\* C31: in every step of an encode call the result map only grows: the entries
\* it holds stay as they are and where they are, every entry added is the
\* slot of a task that settles in that step, keyed by that task's own input
\* and holding its outcome, every settled task has its slot, and no key
\* occurs twice.
C31_ResultMapOnlyGrows ==
    [][IsEncode =>
           /\ Len(results') >= Len(results)
           /\ \A j \in 1..Len(results) : results'[j] = results[j]
           /\ \A j \in (Len(results) + 1)..Len(results') :
                  \E k \in 1..Len(tasks') : SettlesNow(k) /\ results'[j] = SlotOf(tasks'[k])
           /\ \A k \in 1..Len(tasks') :
                  IsSettled(tasks'[k]) => MapHas(results', tasks'[k].path)
           /\ \A j, k \in 1..Len(results') : results'[j].key = results'[k].key => j = k]_vars

C31_Witness ==
    /\ IsEncode /\ phase = "awaiting"
    /\ Len(tasks) >= 2
    /\ Len(results) >= 1
    /\ \E k \in 1..Len(tasks) : ~IsSettled(tasks[k])


(***************************************************************************)
(* The progress of a batch.                                                *)
(***************************************************************************)
MemberPending == \E k \in 1..Len(tasks) : ~IsSettled(tasks[k])
Batched == IsEncode /\ Concurrency >= 1

\* C32: when every operation that is awaited eventually completes or times
\* out, encode with a concurrency of at least 1 eventually resolves; once it
\* has resolved no input is in flight and every distinct input has its slot;
\* and while a member of the awaited group has not settled, the loop does not
\* advance, no other input is started and the call does not resolve.
C32_BatchLiveness ==
    /\ Batched ~> (phase = "done" /\ Fulfilled)
    /\ []((Batched /\ promise.state # "pending") =>
              /\ ~MemberPending
              /\ \A j \in 1..Len(uniquePaths) : MapHas(results, uniquePaths[j]))
    /\ [][(Batched /\ MemberPending) =>
              /\ i' = i
              /\ phase' = "awaiting"
              /\ promise' = promise
              /\ [k \in 1..Len(tasks') |-> tasks'[k].path]
                     = [k \in 1..Len(tasks) |-> tasks[k].path]
              /\ \A j \in 1..Len(uniquePaths) :
                     j > i + Concurrency =>
                         Issued(io', "encodeSingle", uniquePaths[j]) = 0]_vars

C32_Witness ==
    /\ Batched /\ Fulfilled
    /\ Len(uniquePaths) > Concurrency
    /\ \E j \in 1..Len(results) : results[j].error = AbortError
    /\ \E j \in 1..Len(results) : ~IsNull(results[j].data)


(***************************************************************************)
(* The file-system operations of a local resolution, gate by gate.         *)
(***************************************************************************)
PathAccepted(p) == ~validatePath(p).threw
LooksUp(p) == Issued(io, "fileExists", p) > 0
Stats(p) == Issued(io, "getFileSize", p) > 0
Reads(p) == Issued(io, "readFileBuffer", p) > 0

\* C33: at every moment of the resolution of a local input, an existence
\* check has been issued only for an accepted path, a stat only after the
\* existence check and for a file that is there, a read only after the stat
\* and for a file within the limit (or with force) that has a known media
\* type; no operation is issued twice, and a resolution that has failed has
\* issued nothing beyond the gate that failed.
C33_LocalShortCircuit ==
    \A p \in GivenSet :
        ~RemoteInput(p) =>
            /\ \A op \in LocalOps : Issued(io, op, p) <= 1
            /\ \A op \in RemoteOps : Issued(io, op, p) = 0
            /\ LooksUp(p) => PathAccepted(p)
            /\ Stats(p) => LooksUp(p) /\ FilePresent(p)
            /\ Reads(p) => Stats(p) /\ ~OverLimit(p) /\ ~IsNull(getMimeType(p))
            /\ (Resolved(p) /\ ~IsNull(ErrorOf(p))) => ~Reads(p)

C33_Witness ==
    /\ call.fn = "encodeSingle" /\ phase = "done"
    /\ call.paths.v = "no.png"
    /\ promise = [state |-> "rejected", value |-> NotFoundError("no.png")]
    /\ LooksUp("no.png") /\ ~Stats("no.png") /\ ~Reads("no.png")

C33_WitnessRead ==
    /\ call.fn = "encodeSingle" /\ phase = "done"
    /\ call.paths.v = "a.png"
    /\ Fulfilled
    /\ LooksUp("a.png") /\ Stats("a.png") /\ Reads("a.png")


(***************************************************************************)
(* The size gate of a local resolution and the bytes that are encoded.     *)
(***************************************************************************)
PayloadOf(uri) == SubSeq(uri, IndexOf(uri, ";base64,", 1) + 8, Len(uri))
EncodedBytes(uri) == Base64Decode(PayloadOf(uri))

\* C34: whenever the resolution of a local file succeeds without force, the
\* bytes that were encoded are at most sizeLimit long, also when the file is
\* rewritten by another process between the stat and the read.
C34_LocalSizeGateGroundTruth ==
    \A p \in GivenSet :
        (~RemoteInput(p) /\ ~OptForce(call.options) /\ ~IsNull(DataOf(p))) =>
            Len(EncodedBytes(DataOf(p).v)) <= OptSizeLimit(call.options)


\* C35: a local resolution fails with the path-traversal error only when the
\* normalized form of its input has a segment that is `..`; two dots inside a
\* segment name ('img/a..b.png', '/data/v1..2/x.png') give no such error.
C35_TraversalOnlyForParentSegments ==
    \A p \in GivenSet :
        (~RemoteInput(p) /\ Resolved(p) /\ ErrorOf(p) = TraversalError(p)) =>
            HasParentSegment(p)


(***************************************************************************)
(* The two path-security errors of validatePath on relative POSIX paths.   *)
(***************************************************************************)
\* the relative paths of up to MaxSegments segments, `..`, `.` and empty
\* segments included
Segments == {"..", ".", "", "a", "w", "a..b"}
SegmentPaths ==
    {Join(segs, "/") : segs \in UNION {[1..n -> Segments] : n \in 1..MaxSegments}}
RelativePaths == {p \in SegmentPaths \cup RelativeInputs : p # "" /\ ~StartsWith(p, "/")}

UnderCwd(p) == p = Cwd \/ StartsWith(p, Cwd \o "/")

\* a relative path that passes the `..` test resolves to a place under the
\* working directory, and validatePath throws on a relative path nothing but
\* the traversal error
EscapeErrorUnreachable ==
    \A p \in RelativePaths :
        /\ ~Includes(Normalize(p), "..") => UnderCwd(Resolve(Normalize(p)))
        /\ validatePath(p).threw => validatePath(p) = Throw(TraversalError(p))

\* C36: on POSIX paths validatePath never throws the 'relative path escapes
\* cwd' error: a relative path that passes the `..` test resolves under the
\* working directory, and every path-security failure of the resolution of a
\* relative input is the path-traversal error.
C36_EscapeErrorUnreachable ==
    /\ EscapeErrorUnreachable
    /\ \A p \in GivenSet \cap RelativeInputs :
           (Resolved(p) /\ PathSecurityError(ErrorOf(p))) => ErrorOf(p) = TraversalError(p)

C36_Witness ==
    /\ call.fn = "encodeSingle" /\ phase = "done"
    /\ call.paths.v = "../../etc/passwd"
    /\ "../../etc/passwd" \in EscapingInputs
    /\ ~UnderCwd(Resolve("../../etc/passwd"))
    /\ promise = [state |-> "rejected", value |-> TraversalError("../../etc/passwd")]


(***************************************************************************)
(* The calls encodeLegacy makes of its callback.                           *)
(***************************************************************************)
\* C37: encodeLegacy calls its callback at most once at any time and exactly
\* once by the time it is through, whatever encode gave and also when the
\* callback throws in its first call.
C37_CallbackExactlyOnce ==
    "given" \in DOMAIN call =>
        /\ Len(callbackCalls) <= 1
        /\ phase = "returned" => Len(callbackCalls) = 1


(***************************************************************************)
(* The deadline timers of the requests.                                    *)
(***************************************************************************)
TimersSet(request, u) == Issued(io, "setTimeout:" \o request, u)
TimersCleared(request, u) == Issued(io, "clearTimeout:" \o request, u)
TimersPending(request, u) == TimersSet(request, u) - TimersCleared(request, u)
InRequest(request, u) ==
    \E k \in 1..Len(tasks) :
        tasks[k].path = u /\ ~IsSettled(tasks[k]) /\ RequestOf(tasks[k].pc) = request

C38_WitnessStatus ==
    /\ call.fn = "encodeSingle" /\ phase = "done"
    /\ RemoteInput(call.paths.v)
    /\ promise.state = "rejected" /\ StartsWith(promise.value.message, "HTTP 404")
    /\ TimersSet("fetchBuffer", call.paths.v) = 1
    /\ TimersCleared("fetchBuffer", call.paths.v) = 1


(***************************************************************************)
(* The deadline of a fetch and the reading of the body.                    *)
(***************************************************************************)
ReadingBody(u) ==
    \E k \in 1..Len(tasks) : tasks[k].path = u /\ tasks[k].pc = "arrayBuffer"
WholeBody(u) == BufferOf(world.http[u].get.body, world.http[u].get.bodyZeros)

\* C39: while the body of a fetch is read, the timer set when the fetch was
\* issued is still pending; when the headers arrived in time and the body is
\* not read to its end within `timeout` ms of the fetch being issued, the
\* resolution fails with the abort error and gives no data URI; and a data
\* URI, when one is given, holds the whole body.
C39_DeadlineCoversBody ==
    \A u \in GivenSet :
        (RemoteInput(u) /\ u \in DOMAIN world.http) =>
            LET get == world.http[u].get
                timeout == OptTimeout(call.options)
            IN  /\ ReadingBody(u) =>
                       /\ get.delay < timeout
                       /\ TimersPending("fetchBuffer", u) = 1
                /\ (/\ Issued(io, "arrayBuffer", u) = 1
                    /\ get.delay + get.bodyDelay > timeout
                    /\ Resolved(u)) =>
                       /\ ErrorOf(u) = AbortError
                       /\ IsNull(DataOf(u))
                /\ ~IsNull(DataOf(u)) =>
                       /\ get.delay + get.bodyDelay < timeout
                       /\ PayloadOf(DataOf(u).v) = ToBase64(WholeBody(u))

C39_Witness ==
    /\ call.fn = "encodeSingle" /\ phase = "done"
    /\ call.paths.v = "http://h/i.png"
    /\ call.options = [timeout |-> 2]
    /\ world.http["http://h/i.png"].get.status = 200
    /\ world.http["http://h/i.png"].get.delay = 1
    /\ world.http["http://h/i.png"].get.bodyDelay = 2
    /\ Issued(io, "arrayBuffer", "http://h/i.png") = 1
    /\ promise = [state |-> "rejected", value |-> AbortError]

====
